---- MODULE Spec2Model ----
(***************************************************************************)
(* State-machine model of the agentic-dev-team core:                       *)
(*   - CostTracker        (src/agentic-dev-team/src/utils/CostTracker.ts)  *)
(*   - PermissionManager  (src/agentic-dev-team/src/security/...)          *)
(*   - TeamManager        (core/TeamManager.ts, src/unnamed/part_001)      *)
(*   - HookManager        (hooks/HookManager.ts, src/.../index.ts)         *)
(*                                                                         *)
(* Conventions.                                                            *)
(*   Strings that the code inspects character by character (rules, tool    *)
(*   names, commands, paths) are sequences of one-character strings.       *)
(*   An optional object field is a record field that may be missing from   *)
(*   the DOMAIN of the record.                                             *)
(*   A JavaScript number is [nan, val]; money is kept exact in units of    *)
(*   1e-10 USD (rates are in 1e-7 USD per 1,000 tokens), so that           *)
(*   (tokens / 1000) * rate is the integer tokens * rate.                  *)
(***************************************************************************)
EXTENDS Integers, Sequences, FiniteSets, TLC

VARIABLES
  \* CostTracker
  processedMessageIds,   \* Set<string> of message ids already charged
  stepUsages,            \* the ledger: sequence of StepUsage
  ctCall,                \* the last CostTracker call and what it returned
  \* PermissionManager
  rules,                 \* the policy: [deny, allow, ask], each a rule list
  auditLog,              \* the audit ledger
  permCall,              \* the last call of the permission handler
  \* TeamManager
  activeSessions,        \* the keys of the live session table
  session,               \* the session objects, by identifier
  execs,                 \* the executeTask invocations, by taskId
  batches,               \* the executeParallelTasks calls
  endCalls,              \* the endSession calls that passed the lookup
  reports,               \* what the report sink has stored, in order
  ended,                 \* identifiers for which an endSession returned
  teamCall,              \* the TeamManager call the last step rejected
  taskObjects,           \* the TaskRequest objects the caller holds
  \* HookManager
  configuration,         \* event name -> list of matcher groups
  eventMetrics,          \* tool name -> number of PostToolUse runs counted
  executionHistory,      \* the record of hook executions
  registered,            \* event name -> callback names, in the order of
                         \* the addHook and addCustomHook calls
  hookCall,              \* the last HookManager call
  \* SessionManager
  sessionsFile,          \* the file sessions.json: absent, or its content
  metadataCalls          \* the saveSessionMetadata, resumeSession and
                         \* completeSession calls

costVars == <<processedMessageIds, stepUsages, ctCall>>

permVars == <<rules, auditLog, permCall>>

teamVars ==
  <<activeSessions, session, execs, batches, endCalls, reports, ended,
    teamCall, taskObjects>>

hookVars ==
  <<configuration, eventMetrics, executionHistory, registered, hookCall>>

storeVars == <<sessionsFile, metadataCalls>>

vars ==
  <<processedMessageIds, stepUsages, ctCall, rules, auditLog, permCall,
    activeSessions, session, execs, batches, endCalls, reports, ended,
    teamCall, taskObjects, configuration, eventMetrics, executionHistory,
    registered, hookCall, sessionsFile, metadataCalls>>


----------------------------------------------------------------------------
(* JavaScript numbers                                                      *)

Num(v) == [nan |-> FALSE, val |-> v]

NaN == [nan |-> TRUE, val |-> 0]

\* a + b
Plus(a, b) == IF a.nan \/ b.nan THEN NaN ELSE Num(a.val + b.val)

----------------------------------------------------------------------------
(* CostTracker                                                             *)

\* PRICING, in 1e-7 USD per 1,000 tokens
input_tokens_per_1k == 300
output_tokens_per_1k == 1500
cache_creation_per_1k == 3750
cache_read_per_1k == 75

CounterNames ==
  {"input_tokens", "output_tokens",
   "cache_creation_input_tokens", "cache_read_input_tokens"}

\* usage.f || 0
CounterOrZero(usage, f) == IF f \in DOMAIN usage THEN usage[f] ELSE 0

calculateCost_cacheUncharged(usage) ==
  IF "input_tokens" \notin DOMAIN usage \/ "output_tokens" \notin DOMAIN usage
  THEN NaN
  ELSE Num(usage["input_tokens"] * input_tokens_per_1k
           + usage["output_tokens"] * output_tokens_per_1k)

\* usage.input_tokens / 1000 is NaN when the counter is undefined; the two
\* cache counters are read through "|| 0".
calculateCost(usage) ==
  IF "input_tokens" \notin DOMAIN usage \/ "output_tokens" \notin DOMAIN usage
  THEN NaN
  ELSE Num(usage["input_tokens"] * input_tokens_per_1k
           + usage["output_tokens"] * output_tokens_per_1k
           + CounterOrZero(usage, "cache_creation_input_tokens")
               * cache_creation_per_1k
           + CounterOrZero(usage, "cache_read_input_tokens")
               * cache_read_per_1k)

\* current.f || 0  +  newUsage.f || 0
SumCounter(current, newUsage, f) ==
  CounterOrZero(current, f) + CounterOrZero(newUsage, f)

aggregateUsage(current, newUsage) ==
  LET summed ==
        [input_tokens |-> SumCounter(current, newUsage, "input_tokens"),
         output_tokens |-> SumCounter(current, newUsage, "output_tokens"),
         cache_creation_input_tokens |->
           SumCounter(current, newUsage, "cache_creation_input_tokens"),
         cache_read_input_tokens |->
           SumCounter(current, newUsage, "cache_read_input_tokens")]
  IN [input_tokens |-> summed.input_tokens,
      output_tokens |-> summed.output_tokens,
      cache_creation_input_tokens |-> summed.cache_creation_input_tokens,
      cache_read_input_tokens |-> summed.cache_read_input_tokens,
      total_cost_usd |-> calculateCost(summed)]

\* the identity of a message in the Set: message.id, or undefined
MessageId(message) ==
  IF "id" \in DOMAIN message THEN <<message.id>> ELSE <<>>

\* "this.processedMessageIds.has(message.id)"
AlreadyProcessed_never(ids, message) == FALSE

AlreadyProcessed(ids, message) == MessageId(message) \in ids

\* "message.type !== 'assistant' || !message.usage"
NotBillable(message) ==
  message.type /= "assistant" \/ "usage" \notin DOMAIN message

StepUsageOf(message) ==
  [messageId |-> MessageId(message),
   usage     |-> message.usage,
   costUSD   |-> calculateCost(message.usage)]

RECURSIVE FoldCost(_, _)
FoldCost(steps, i) ==
  IF i = 0 THEN Num(0) ELSE Plus(FoldCost(steps, i - 1), steps[i].costUSD)

getTotalCost == FoldCost(stepUsages, Len(stepUsages))

ZeroUsage ==
  [input_tokens |-> 0, output_tokens |-> 0,
   cache_creation_input_tokens |-> 0, cache_read_input_tokens |-> 0,
   total_cost_usd |-> Num(0)]

RECURSIVE FoldUsage(_, _)
FoldUsage(steps, i) ==
  IF i = 0 THEN ZeroUsage
  ELSE aggregateUsage(FoldUsage(steps, i - 1), steps[i].usage)

getTotalUsage == FoldUsage(stepUsages, Len(stepUsages))

----------------------------------------------------------------------------
(* Strings: sequences of one-character strings                             *)

startsWith_anywhere(s, prefix) ==
  \E i \in 0..(Len(s) - Len(prefix)) :
    SubSeq(s, i + 1, i + Len(prefix)) = prefix

startsWith(s, prefix) ==
  Len(prefix) <= Len(s) /\ SubSeq(s, 1, Len(prefix)) = prefix

endsWith(s, suffix) ==
  Len(suffix) <= Len(s)
  /\ SubSeq(s, Len(s) - Len(suffix) + 1, Len(s)) = suffix

includes(s, part) ==
  \E i \in 0..(Len(s) - Len(part)) : SubSeq(s, i + 1, i + Len(part)) = part

HasChar(s, c) == \E i \in 1..Len(s) : s[i] = c

\* index of the first occurrence of c in s, 0 when there is none
FirstIndexOf(s, c) ==
  IF HasChar(s, c)
  THEN CHOOSE i \in 1..Len(s) : s[i] = c /\ \A j \in 1..(i - 1) : s[j] /= c
  ELSE 0

\* s.split(' ')[0]
FirstWord(s) ==
  IF HasChar(s, " ") THEN SubSeq(s, 1, FirstIndexOf(s, " ") - 1) ELSE s

----------------------------------------------------------------------------
(* Regular expressions, as far as the code builds them.  A compiled        *)
(* expression is a sequence of tokens [cls, c, q, lazy]: cls is "lit" (the *)
(* character c), "any" (.) or "space" (\s); q is "1", "?", "*" or "+".     *)
(* new RegExp(source) throws a SyntaxError for a source that has an        *)
(* unterminated group or a quantifier with nothing to repeat; Invalid      *)
(* stands for that exception.  Source characters other than . * ? ( are    *)
(* literals in the rule patterns the model draws.                          *)

Invalid == [invalid |-> TRUE]

IsInvalid(re) == "invalid" \in DOMAIN re

Tok(cls, c, q) == [cls |-> cls, c |-> c, q |-> q, lazy |-> FALSE]

Lit(c) == Tok("lit", c, "1")

Lits(s) == [i \in 1..Len(s) |-> Lit(s[i])]

Accepts(tok, ch) ==
  CASE tok.cls = "lit"   -> ch = tok.c
    [] tok.cls = "any"   -> TRUE
    [] tok.cls = "space" -> ch = " "

RECURSIVE MatchAt(_, _, _, _, _)
MatchAt(toks, i, s, j, anchorEnd) ==
  IF i > Len(toks) THEN (~anchorEnd \/ j > Len(s))
  ELSE LET tok == toks[i]
           ok  == j <= Len(s) /\ Accepts(tok, s[j])
       IN CASE tok.q = "1" -> ok /\ MatchAt(toks, i + 1, s, j + 1, anchorEnd)
            [] tok.q = "?" -> \/ ok /\ MatchAt(toks, i + 1, s, j + 1, anchorEnd)
                              \/ MatchAt(toks, i + 1, s, j, anchorEnd)
            [] tok.q = "*" -> \/ MatchAt(toks, i + 1, s, j, anchorEnd)
                              \/ ok /\ MatchAt(toks, i, s, j + 1, anchorEnd)
            [] tok.q = "+" -> ok /\ (\/ MatchAt(toks, i + 1, s, j + 1, anchorEnd)
                                     \/ MatchAt(toks, i, s, j + 1, anchorEnd))

\* regex.test(s) for a valid expression
RegexTest(re, s) ==
  IF re.anchorStart
  THEN MatchAt(re.toks, 1, s, 1, re.anchorEnd)
  ELSE \E j \in 1..(Len(s) + 1) : MatchAt(re.toks, 1, s, j, re.anchorEnd)

\* The tokens of a regex source in which "." is already escaped (glob) or
\* not (wildcard): src is the pattern, dotIsLiteral and questionIsAny say
\* how "." and "?" were rewritten before compilation.  The result is the
\* token sequence, or Invalid.
RECURSIVE CompileFrom(_, _, _, _, _)
CompileFrom(src, i, acc, dotIsLiteral, questionIsAny) ==
  IF i > Len(src) THEN [toks |-> acc]
  ELSE
    LET ch == src[i]
        n  == Len(acc)
    IN CASE ch = "*" ->
              CompileFrom(src, i + 1, Append(acc, Tok("any", ".", "*")),
                          dotIsLiteral, questionIsAny)
         [] ch = "." ->
              CompileFrom(src, i + 1,
                          Append(acc, IF dotIsLiteral THEN Lit(".")
                                      ELSE Tok("any", ".", "1")),
                          dotIsLiteral, questionIsAny)
         [] ch = "?" /\ questionIsAny ->
              CompileFrom(src, i + 1, Append(acc, Tok("any", ".", "1")),
                          dotIsLiteral, questionIsAny)
         [] ch = "?" /\ ~questionIsAny ->
              IF n = 0 THEN Invalid
              ELSE IF acc[n].q = "1"
              THEN CompileFrom(src, i + 1, [acc EXCEPT ![n].q = "?"],
                               dotIsLiteral, questionIsAny)
              ELSE IF ~acc[n].lazy
              THEN CompileFrom(src, i + 1, [acc EXCEPT ![n].lazy = TRUE],
                               dotIsLiteral, questionIsAny)
              ELSE Invalid
         [] ch = "(" -> Invalid
         [] OTHER ->
              CompileFrom(src, i + 1, Append(acc, Lit(ch)),
                          dotIsLiteral, questionIsAny)

\* globToRegex(pattern): "." -> "\.", "*" -> ".*", "?" -> ".", then
\* new RegExp(`^${regexPattern}$`)
globToRegex(pattern) ==
  LET c == CompileFrom(pattern, 1, <<>>, TRUE, TRUE)
  IN IF IsInvalid(c) THEN Invalid
     ELSE [anchorStart |-> TRUE, anchorEnd |-> TRUE, toks |-> c.toks]

\* new RegExp(pattern.replace(/\*/g, '.*'))
wildcardToRegex(pattern) ==
  LET c == CompileFrom(pattern, 1, <<>>, FALSE, FALSE)
  IN IF IsInvalid(c) THEN Invalid
     ELSE [anchorStart |-> FALSE, anchorEnd |-> FALSE, toks |-> c.toks]

----------------------------------------------------------------------------
(* PermissionManager                                                       *)

Bash == <<"B", "a", "s", "h">>
Read == <<"R", "e", "a", "d">>
Write == <<"W", "r", "i", "t", "e">>
Edit == <<"E", "d", "i", "t">>
MultiEdit == <<"M", "u", "l", "t", "i", "E", "d", "i", "t">>
WebFetch == <<"W", "e", "b", "F", "e", "t", "c", "h">>
Grep == <<"G", "r", "e", "p">>
Glob == <<"G", "l", "o", "b">>
TodoWrite == <<"T", "o", "d", "o", "W", "r", "i", "t", "e">>
ListMcpResources == <<"L", "i", "s", "t", "M", "c", "p", "R", "e", "s",
    "o", "u", "r", "c", "e", "s">>
ReadMcpResource == <<"R", "e", "a", "d", "M", "c", "p", "R", "e", "s",
    "o", "u", "r", "c", "e">>

\* the request input null, and the fields an input object may carry
NullInput == [null |-> TRUE]

IsNull(input) == input = NullInput

\* input.f as an optional value: <<v>> or <<>> for undefined
Get(input, f) == IF f \in DOMAIN input THEN <<input[f]>> ELSE <<>>

\* !value, for an optional string
Falsy(opt) == opt = <<>> \/ opt[1] = <<>>

\* the outcome of an expression that may throw
Returned(v) == [threw |-> FALSE, value |-> v]

Threw(message) == [threw |-> TRUE, error |-> message]

TypeErrorNull == "Cannot read properties of null"

SyntaxErrorRegex == "Invalid regular expression"

\* rule.match(/^([^(]+)(?:\(([^)]*)\))?$/)
parseRule(rule) ==
  LET p == FirstIndexOf(rule, "(")
  IN IF p = 0
     THEN [ok |-> rule /= <<>>, tool |-> rule,
           hasPattern |-> FALSE, pattern |-> <<>>]
     ELSE IF /\ p > 1
             /\ rule[Len(rule)] = ")"
             /\ ~HasChar(SubSeq(rule, p + 1, Len(rule) - 1), ")")
     THEN [ok |-> TRUE, tool |-> SubSeq(rule, 1, p - 1),
           hasPattern |-> TRUE, pattern |-> SubSeq(rule, p + 1, Len(rule) - 1)]
     ELSE [ok |-> FALSE, tool |-> <<>>, hasPattern |-> FALSE, pattern |-> <<>>]

\* the dangerousPatterns of matchesBashRule
S1(q) == Tok("space", " ", q)

dangerousPatterns ==
  << [anchorStart |-> TRUE, anchorEnd |-> FALSE,
      toks |-> Lits(<<"r", "m">>) \o <<S1("+")>> \o Lits(<<"-", "r",
          "f">>) \o <<S1("+")>>
                \o Lits(<<"/">>)],
     [anchorStart |-> FALSE, anchorEnd |-> FALSE,
      toks |-> Lits(<<"c", "u", "r", "l">>) \o <<Tok("any", ".",
          "*")>> \o Lits(<<"|">>)
                \o <<S1("*")>> \o Lits(<<"s", "h">>)],
     [anchorStart |-> FALSE, anchorEnd |-> FALSE,
      toks |-> Lits(<<"w", "g", "e", "t">>) \o <<Tok("any", ".",
          "*")>> \o Lits(<<"|">>)
                \o <<S1("*")>> \o Lits(<<"s", "h">>)],
     [anchorStart |-> FALSE, anchorEnd |-> FALSE,
      toks |-> Lits(<<"s", "u", "d", "o">>) \o <<S1("+")>> \o Lits(<<"r",
          "m">>)],
     [anchorStart |-> FALSE, anchorEnd |-> FALSE,
      toks |-> Lits(<<"d", "d">>) \o <<S1("+")>> \o Lits(<<"i", "f", "=">>)],
     [anchorStart |-> FALSE, anchorEnd |-> FALSE,
      toks |-> Lits(<<":", "(", ")", "{", " ", ":", "|", ":", "&", " ",
          "}", ";", ":">>)] >>

matchesBashRule(pattern, command) ==
  IF Falsy(command) THEN FALSE
  ELSE IF endsWith(pattern, <<":", "*">>)
  THEN startsWith(command[1], SubSeq(pattern, 1, Len(pattern) - 2))
  ELSE IF pattern = command[1] THEN TRUE
  ELSE /\ pattern = <<"d", "a", "n", "g", "e", "r", "o", "u", "s">>
       /\ \E k \in 1..Len(dangerousPatterns) :
            RegexTest(dangerousPatterns[k], command[1])

matchesFileRule(pattern, filePath) ==
  IF Falsy(filePath) THEN Returned(FALSE)
  ELSE IF IsInvalid(globToRegex(pattern)) THEN Threw(SyntaxErrorRegex)
  ELSE Returned(RegexTest(globToRegex(pattern), filePath[1]))

\* matchesUrlRule and matchesGenericPattern share this body
matchesWildcard(pattern, text) ==
  IF HasChar(pattern, "*")
  THEN IF IsInvalid(wildcardToRegex(pattern)) THEN Threw(SyntaxErrorRegex)
       ELSE Returned(RegexTest(wildcardToRegex(pattern), text))
  ELSE Returned(includes(text, pattern))

matchesUrlRule(pattern, url) ==
  IF Falsy(url) THEN Returned(FALSE) ELSE matchesWildcard(pattern, url[1])

matchesGenericPattern(pattern, text) == matchesWildcard(pattern, text)

\* JSON.stringify(input) for null and for an object of string fields
InputFields == <<"command", "file_path", "url", "pattern">>

FieldName(f) ==
  CASE f = "command"   -> <<"c", "o", "m", "m", "a", "n", "d">>
    [] f = "file_path" -> <<"f", "i", "l", "e", "_", "p", "a", "t", "h">>
    [] f = "url"       -> <<"u", "r", "l">>
    [] f = "pattern"   -> <<"p", "a", "t", "t", "e", "r", "n">>

RECURSIVE StringifyFields(_, _, _)
StringifyFields(input, i, first) ==
  IF i > Len(InputFields) THEN <<>>
  ELSE IF InputFields[i] \in DOMAIN input
  THEN (IF first THEN <<>> ELSE <<",">>)
       \o <<"\"">> \o FieldName(InputFields[i]) \o <<"\"", ":", "\"">>
       \o input[InputFields[i]] \o <<"\"">>
       \o StringifyFields(input, i + 1, FALSE)
  ELSE StringifyFields(input, i + 1, first)

JSONstringify(input) ==
  IF IsNull(input) THEN <<"n", "u", "l", "l">>
  ELSE <<"{">> \o StringifyFields(input, 1, TRUE) \o <<"}">>

matchesRule(rule, toolName, input) ==
  LET p == parseRule(rule)
  IN IF ~p.ok THEN Returned(FALSE)
     ELSE IF p.tool /= toolName /\ p.tool /= <<"*">> THEN Returned(FALSE)
     ELSE IF ~p.hasPattern \/ p.pattern = <<>> THEN Returned(TRUE)
     ELSE CASE toolName = Bash ->
                 IF IsNull(input) THEN Threw(TypeErrorNull)
                 ELSE Returned(matchesBashRule(p.pattern, Get(input, "command")))
            [] toolName \in {Read, Write, Edit} ->
                 IF IsNull(input) THEN Threw(TypeErrorNull)
                 ELSE matchesFileRule(p.pattern, Get(input, "file_path"))
            [] toolName = WebFetch ->
                 IF IsNull(input) THEN Threw(TypeErrorNull)
                 ELSE matchesUrlRule(p.pattern, Get(input, "url"))
            [] OTHER ->
                 matchesGenericPattern(p.pattern, JSONstringify(input))

\* The first rule of a bucket that matches, as the loops of checkDenyRules,
\* checkAllowRules and checkAskRules find it: [kind |-> "match", rule],
\* [kind |-> "none"], or [kind |-> "throw", error] when matchesRule throws
\* before any rule has matched.
RECURSIVE FirstMatchFrom(_, _, _, _)
FirstMatchFrom(bucket, i, toolName, input) ==
  IF i > Len(bucket) THEN [kind |-> "none"]
  ELSE LET m == matchesRule(bucket[i], toolName, input)
       IN IF m.threw THEN [kind |-> "throw", error |-> m.error]
          ELSE IF m.value THEN [kind |-> "match", rule |-> bucket[i]]
          ELSE FirstMatchFrom(bucket, i + 1, toolName, input)

criticalPatterns ==
  << <<"B", "a", "s", "h", "(", "r", "m", " ", "-", "r", "f">>, <<"B",
      "a", "s", "h", "(", "d", "a", "n", "g", "e", "r", "o", "u", "s",
          ")">>, <<"W", "r", "i", "t", "e", "(", ".", "e", "n", "v", ")">>,
     <<"W", "r", "i", "t", "e", "(", ".", "/", "s", "e", "c", "r", "e",
         "t", "s", "/">> >>

isCriticalRule(rule) ==
  \E k \in 1..Len(criticalPatterns) : includes(rule, criticalPatterns[k])

checkDenyRules_skipsFirst(toolName, input) ==
  FirstMatchFrom(rules.deny, 2, toolName, input)

checkDenyRules(toolName, input) ==
  FirstMatchFrom(rules.deny, 1, toolName, input)

checkAllowRules(toolName, input) ==
  FirstMatchFrom(rules.allow, 1, toolName, input)

checkAskRules_none(toolName, input) == [kind |-> "none"]

checkAskRules(toolName, input) ==
  FirstMatchFrom(rules.ask, 1, toolName, input)

safeDevelopmentTools ==
  {Read, Grep, Glob, TodoWrite, ListMcpResources, ReadMcpResource}

editingTools == {Write, Edit, MultiEdit}

safeCommands_withNpm ==
  { <<"l", "s">>, <<"p", "w", "d">>, <<"e", "c", "h", "o">>, <<"c", "a",
      "t">>, <<"h", "e", "a", "d">>, <<"t", "a", "i", "l">>, <<"g", "r",
          "e", "p">>,
    <<"f", "i", "n", "d">>, <<"n", "p", "m">> }

safeCommands ==
  { <<"l", "s">>, <<"p", "w", "d">>, <<"e", "c", "h", "o">>, <<"c", "a",
      "t">>, <<"h", "e", "a", "d">>, <<"t", "a", "i", "l">>, <<"g", "r",
          "e", "p">>,
    <<"f", "i", "n", "d">> }

\* applyDefaultPolicy(context): the result, or the exception it throws
applyDefaultPolicy(context) ==
  LET toolName == context.toolName
      input    == context.input
  IN IF toolName \in safeDevelopmentTools
     THEN Returned([behavior |-> "allow"])
     ELSE IF toolName \in editingTools
     THEN IF IsNull(input) THEN Threw(TypeErrorNull)
          ELSE IF /\ ~Falsy(Get(input, "file_path"))
                  /\ includes(input.file_path, <<"/", "w", "o", "r", "k",
                      "s", "p", "a", "c", "e", "/">>)
          THEN Returned([behavior |-> "allow"])
          ELSE Returned(
                 [behavior |-> "deny",
                  message |-> <<"File editing outside workspace requires explicit permission">>])
     ELSE IF toolName = Bash
     THEN IF IsNull(input) THEN Threw(TypeErrorNull)
          ELSE IF /\ "command" \in DOMAIN input
                  /\ FirstWord(input.command) \in safeCommands
          THEN Returned([behavior |-> "allow"])
          ELSE IF /\ "priority" \in DOMAIN context
                  /\ context.priority \in {"critical", "high"}
          THEN Returned(
                 [behavior |-> "allow",
                  message |-> <<"Bash command approved due to high priority">>])
          ELSE Returned(
                 [behavior |-> "deny",
                  message |-> <<"Bash command requires explicit permission">>])
     ELSE Returned(
            [behavior |-> "deny",
             message |-> <<"Tool ", toolName, " not in allowed list">>])

\* the result and the audit reason of the catch block
CatchDecision_failOpen(error) ==
  [result |-> [behavior |-> "allow",
               message |-> <<"Permission evaluation error: ", error>>],
   reason |-> <<"Error: ", error>>]

CatchDecision(error) ==
  [result |-> [behavior |-> "deny",
               message |-> <<"Permission evaluation error: ", error>>],
   reason |-> <<"Error: ", error>>]

\* Steps 1 to 4 of evaluatePermission for the outcomes d, a, k of the deny,
\* allow and ask checks and p of the default policy; a later outcome is
\* looked at only when the earlier ones neither matched nor threw.
Decide_askBeforeAllow(context, d, a, k, p) ==
  IF d.kind = "throw" THEN CatchDecision(d.error)
  ELSE IF d.kind = "match"
  THEN [result |-> [behavior |-> "deny",
                    message |-> <<"Tool use denied by rule: ", d.rule>>,
                    interrupt |-> isCriticalRule(d.rule)],
        reason |-> <<"Denied by rule: ", d.rule>>]
  ELSE IF k.kind = "throw" THEN CatchDecision(k.error)
  ELSE IF k.kind = "match"
  THEN [result |-> [behavior |-> "allow",
                    message |-> <<"Tool approved (would normally ask): ", k.rule>>],
        reason |-> <<"Auto-approved ask rule: ", k.rule>>]
  ELSE IF a.kind = "throw" THEN CatchDecision(a.error)
  ELSE IF a.kind = "match"
  THEN [result |-> [behavior |-> "allow", updatedInput |-> context.input],
        reason |-> <<"Allowed by rule: ", a.rule>>]
  ELSE IF p.threw THEN CatchDecision(p.error)
  ELSE [result |-> p.value, reason |-> <<"Applied default policy">>]

Decide(context, d, a, k, p) ==
  IF d.kind = "throw" THEN CatchDecision(d.error)
  ELSE IF d.kind = "match"
  THEN [result |-> [behavior |-> "deny",
                    message |-> <<"Tool use denied by rule: ", d.rule>>,
                    interrupt |-> isCriticalRule(d.rule)],
        reason |-> <<"Denied by rule: ", d.rule>>]
  ELSE IF a.kind = "throw" THEN CatchDecision(a.error)
  ELSE IF a.kind = "match"
  THEN [result |-> [behavior |-> "allow", updatedInput |-> context.input],
        reason |-> <<"Allowed by rule: ", a.rule>>]
  ELSE IF k.kind = "throw" THEN CatchDecision(k.error)
  ELSE IF k.kind = "match"
  THEN [result |-> [behavior |-> "allow",
                    message |-> <<"Tool approved (would normally ask): ", k.rule>>],
        reason |-> <<"Auto-approved ask rule: ", k.rule>>]
  ELSE IF p.threw THEN CatchDecision(p.error)
  ELSE [result |-> p.value, reason |-> <<"Applied default policy">>]

evaluatePermission(context) ==
  Decide(context,
         checkDenyRules(context.toolName, context.input),
         checkAllowRules(context.toolName, context.input),
         checkAskRules(context.toolName, context.input),
         applyDefaultPolicy(context))

\* the audit ledger cap and what survives an eviction
AuditCap == 1000
AuditKeep == 500

\* the eviction keeping the oldest entries instead of the newest
logDecision_keepsOldest(log, context, result, reason) ==
  LET pushed == Append(log, [context |-> context, result |-> result,
                             reason |-> reason])
  IN IF Len(pushed) > AuditCap
     THEN SubSeq(pushed, 1, AuditKeep)
     ELSE pushed

\* logDecision(context, result, reason) applied to the ledger log
logDecision(log, context, result, reason) ==
  LET pushed == Append(log, [context |-> context, result |-> result,
                             reason |-> reason])
  IN IF Len(pushed) > AuditCap
     THEN SubSeq(pushed, Len(pushed) - AuditKeep + 1, Len(pushed))
     ELSE pushed

\* the context getPermissionHandler builds from (toolName, input, options)
ContextOf(toolName, input, options) ==
  [f \in {"toolName", "input"}
          \cup (DOMAIN options \cap {"memberId", "sessionId", "priority"}) |->
     CASE f = "toolName" -> toolName
       [] f = "input"    -> input
       [] OTHER          -> options[f]]

----------------------------------------------------------------------------
(* TeamManager                                                             *)
(*                                                                         *)
(* JavaScript runs each handler to its next await without interruption, so *)
(* an action is the code between two suspension points.  executeTask       *)
(* suspends in "for await (const message of query(...))"; endSession       *)
(* suspends in "await this.generateSessionReport(session)".                *)
(*                                                                         *)
(* A session object lives in `session` from startTeamSession on, also      *)
(* after it has left the live table, because a running executeTask keeps   *)
(* its reference.  generateSessionId and the taskId of executeTask         *)
(* (timestamp plus nine random characters) are taken to be fresh: the      *)
(* n-th identifier is n.                                                   *)

Alphabet == <<"a", "b", "c", "d", "e", "f", "g", "h", "i", "j", "k", "l",
    "m", "n", "o", "p", "q", "r", "s", "t", "u", "v", "w", "x", "y", "z">>

Capitals == <<"A", "B", "C", "D", "E", "F", "G", "H", "I", "J", "K", "L",
    "M", "N", "O", "P", "Q", "R", "S", "T", "U", "V", "W", "X", "Y", "Z">>

toLowerCase(s) ==
  [i \in 1..Len(s) |->
     IF HasChar(Capitals, s[i])
     THEN Alphabet[FirstIndexOf(Capitals, s[i])]
     ELSE s[i]]

\* config.members of createTeamConfiguration (the first three members)
members ==
  << [id |-> "senior-architect", role |-> <<"t", "e", "c", "h", "n", "i",
      "c", "a", "l", "-", "l", "e", "a", "d">>,
      specialization |-> << <<"a", "r", "c", "h", "i", "t", "e", "c", "t",
          "u", "r", "e">>, <<"s", "y", "s", "t", "e", "m", "-", "d", "e",
              "s", "i", "g", "n">>,
                            <<"c", "o", "d", "e", "-", "r", "e", "v", "i",
                                "e", "w">>, <<"m", "e", "n", "t", "o",
                                    "r", "i", "n", "g">> >>],
     [id |-> "frontend-specialist", role |-> <<"f", "r", "o", "n", "t",
         "e", "n", "d", "-", "d", "e", "v", "e", "l", "o", "p", "e", "r">>,
      specialization |-> << <<"r", "e", "a", "c", "t">>, <<"t", "y", "p",
          "e", "s", "c", "r", "i", "p", "t">>, <<"u", "i", "-", "u", "x">>,
                            <<"p", "e", "r", "f", "o", "r", "m", "a", "n",
                                "c", "e">>, <<"t", "e", "s", "t", "i",
                                    "n", "g">> >>],
     [id |-> "backend-specialist", role |-> <<"b", "a", "c", "k", "e",
         "n", "d", "-", "d", "e", "v", "e", "l", "o", "p", "e", "r">>,
      specialization |-> << <<"n", "o", "d", "e", "j", "s">>, <<"a", "p",
          "i", "s">>, <<"d", "a", "t", "a", "b", "a", "s", "e", "s">>,
                            <<"m", "i", "c", "r", "o", "s", "e", "r", "v",
                                "i", "c", "e", "s">>, <<"a", "u", "t",
                                    "h", "e", "n", "t", "i", "c", "a",
                                        "t", "i", "o", "n">> >>] >>

\* the value of this.config.members[0] when the roster is empty
undefined == [undefined |-> TRUE]

\* the filter with the role test left out
IsCandidate_tagsOnly(member, task) ==
  \E k \in 1..Len(member.specialization) :
    member.specialization[k] = task.type

IsCandidate(member, task) ==
  \/ \E k \in 1..Len(member.specialization) :
       member.specialization[k] = task.type
  \/ includes(toLowerCase(member.role), task.type)

\* selectTeamMember(task) over the roster
selectTeamMember(roster, task) ==
  IF \E i \in 1..Len(roster) : IsCandidate(roster[i], task)
  THEN roster[CHOOSE i \in 1..Len(roster) :
                /\ IsCandidate(roster[i], task)
                /\ \A j \in 1..(i - 1) : ~IsCandidate(roster[j], task)]
  ELSE IF \E i \in 1..Len(roster) : roster[i].role = <<"f", "u", "l", "l",
      "-", "s", "t", "a", "c", "k", "-", "d", "e", "v", "e", "l", "o",
          "p", "e", "r">>
  THEN roster[CHOOSE i \in 1..Len(roster) :
                /\ roster[i].role = <<"f", "u", "l", "l", "-", "s", "t",
                    "a", "c", "k", "-", "d", "e", "v", "e", "l", "o", "p",
                        "e", "r">>
                /\ \A j \in 1..(i - 1) :
                     roster[j].role /= <<"f", "u", "l", "l", "-", "s",
                         "t", "a", "c", "k", "-", "d", "e", "v", "e", "l",
                             "o", "p", "e", "r">>]
  ELSE IF Len(roster) > 0 THEN roster[1] ELSE undefined

\* the session object startTeamSession builds
NewSession(sessionId) ==
  [id |-> sessionId, activeMembers |-> <<>>, currentTasks |-> <<>>,
   completedTasks |-> <<>>, totalCost |-> Num(0), totalUsage |-> << >>]

\* this.activeSessions.get(sessionId) is undefined
SessionMissing_everCreated(table, sessionId) ==
  sessionId \notin DOMAIN session

SessionMissing(table, sessionId) == sessionId \notin table

SessionNotFound(sessionId) == <<"Session ", sessionId, " not found">>

\* getSessionStatus(sessionId): the session object, or null
getSessionStatus(sessionId) ==
  IF sessionId \in activeSessions THEN session[sessionId] ELSE "null"

\* taskResult.cost || 0
CostOrZero(cost) == IF cost.nan THEN Num(0) ELSE cost

\* the TaskResult of the success path of executeTask
CompletedResult(taskId, result, usage, duration) ==
  [taskId |-> taskId, status |-> "completed", result |-> result,
   usage |-> usage, cost |-> calculateCost(usage), duration |-> duration]

\* the TaskResult of the catch block of executeTask
FailedResult(taskId, error) ==
  [taskId |-> taskId, status |-> "failed",
   result |-> <<"Task failed: ", error>>]

\* "Update session": the three statements that follow the construction of
\* taskResult, applied to the session object s
UpdateSession_overwrite(s, taskResult, usage) ==
  [s EXCEPT
     !.completedTasks = IF @ = <<>> THEN <<taskResult>>
                        ELSE [@ EXCEPT ![Len(@)] = taskResult],
     !.totalCost = Plus(@, CostOrZero(taskResult.cost)),
     !.totalUsage = aggregateUsage(@, usage)]

UpdateSession(s, taskResult, usage) ==
  [s EXCEPT
     !.completedTasks = Append(@, taskResult),
     !.totalCost = Plus(@, CostOrZero(taskResult.cost)),
     !.totalUsage = aggregateUsage(@, usage)]

\* JSON.stringify of a number: NaN is written as null
StringifyNumber(n) == IF n.nan THEN "null" ELSE n

\* JSON.stringify(report, null, 2): the text the report sink receives, as
\* the value a reader parses from it
StringifyReport(report) ==
  [report EXCEPT
     !.totalCost = StringifyNumber(@),
     !.taskBreakdown =
        [i \in 1..Len(@) |-> [@[i] EXCEPT !.cost = StringifyNumber(@)]]]

ReportOf_lastTaskOnly(s) ==
  [sessionId |-> s.id,
   totalTasks |-> Len(s.completedTasks),
   totalCost |-> s.totalCost,
   usage |-> s.totalUsage,
   taskBreakdown |->
     [i \in 1..(IF s.completedTasks = <<>> THEN 0 ELSE 1) |->
        [f \in {"taskId", "status", "duration", "cost"} |->
           s.completedTasks[Len(s.completedTasks)][f]]]]

\* the report generateSessionReport builds from the session object
ReportOf(s) ==
  [sessionId |-> s.id,
   totalTasks |-> Len(s.completedTasks),
   totalCost |-> s.totalCost,
   usage |-> s.totalUsage,
   taskBreakdown |->
     [i \in 1..Len(s.completedTasks) |->
        [f \in DOMAIN s.completedTasks[i]
              \cap {"taskId", "status", "duration", "cost"} |->
           s.completedTasks[i][f]]]]

\* this.activeSessions.delete(sessionId)
DeleteSession_forgotten(table, sessionId) == table

DeleteSession(table, sessionId) == table \ {sessionId}

\* the value Promise.all resolves to: the results of the batch, in the
\* order of the input list
BatchResults_reversed(batch, ex) ==
  [i \in 1..Len(batch) |-> ex[batch[Len(batch) + 1 - i]].result]

BatchResults(batch, ex) == [i \in 1..Len(batch) |-> ex[batch[i]].result]

----------------------------------------------------------------------------
(* HookManager (hooks/HookManager.ts, src/agentic-dev-team/src/index.ts)   *)
(*                                                                         *)
(* The configuration maps an event name to its list of matcher groups      *)
(* { matcher?, hooks }; a group's matcher is <<>> when it has none.  A     *)
(* callback is { name, handler }; the handler of a custom callback is      *)
(* given by what it does when called: it returns an output or throws.      *)
(* History entries carry event, memberId, success and output; timestamp    *)
(* and duration are left out.                                              *)

PreToolUse == "PreToolUse"
PostToolUse == "PostToolUse"
UserPromptSubmit == "UserPromptSubmit"
SessionStart == "SessionStart"
SessionEnd == "SessionEnd"
PreCompact == "PreCompact"

\* \s of a regular expression
IsSpace(c) == c \in {" ", "\t", "\n", "\r"}

\* text has the literal lit at position i
LitAt(text, i, lit) ==
  /\ i >= 1
  /\ i + Len(lit) - 1 <= Len(text)
  /\ \A k \in 1..Len(lit) : text[i + k - 1] = lit[k]

\* text[a..b] consists of white space only
AllSpace(text, a, b) == \A p \in a..b : IsSpace(text[p])

\* text[a..b] holds no line terminator: what .* can run over
OneLine(text, a, b) == \A p \in a..b : text[p] \notin {"\n", "\r"}

\* /rm\s+-rf\s+\/(?!.*workspace)/.test(text)
TestRmRf(text) ==
  \E i \in 1..Len(text) :
    /\ LitAt(text, i, <<"r", "m">>)
    /\ \E j \in (i + 3)..Len(text) :
         /\ AllSpace(text, i + 2, j - 1)
         /\ LitAt(text, j, <<"-", "r", "f">>)
         /\ \E k \in (j + 4)..Len(text) :
              /\ AllSpace(text, j + 3, k - 1)
              /\ text[k] = "/"
              /\ ~ \E w \in (k + 1)..Len(text) :
                     /\ LitAt(text, w, <<"w", "o", "r", "k", "s", "p",
                         "a", "c", "e">>)
                     /\ OneLine(text, k + 1, w - 1)

\* /sudo\s+/.test(text)
TestSudo(text) ==
  \E i \in 1..Len(text) :
    LitAt(text, i, <<"s", "u", "d",
        "o">>) /\ i + 4 <= Len(text) /\ IsSpace(text[i + 4])

\* /<tool>.*\|\s*sh/.test(text), for curl and wget
TestPipeToShell(text, tool) ==
  \E i \in 1..Len(text) :
    /\ LitAt(text, i, tool)
    /\ \E p \in (i + Len(tool))..Len(text) :
         /\ text[p] = "|"
         /\ OneLine(text, i + Len(tool), p - 1)
         /\ \E j \in (p + 1)..Len(text) :
              AllSpace(text, p + 1, j - 1) /\ LitAt(text, j, <<"s", "h">>)

\* /dd\s+if=/.test(text)
TestDd(text) ==
  \E i \in 1..Len(text) :
    /\ LitAt(text, i, <<"d", "d">>)
    /\ \E j \in (i + 3)..Len(text) :
         AllSpace(text, i + 2, j - 1) /\ LitAt(text, j, <<"i", "f", "=">>)

\* the pattern list without the sudo pattern
MatchesDangerousPattern_withoutSudo(command) ==
  \/ TestRmRf(command)
  \/ TestPipeToShell(command, <<"c", "u", "r", "l">>)
  \/ TestPipeToShell(command, <<"w", "g", "e", "t">>)
  \/ TestDd(command)

\* dangerousPatterns.some(pattern => pattern.test(command)) of security-audit
MatchesDangerousPattern(command) ==
  \/ TestRmRf(command)
  \/ TestSudo(command)
  \/ TestPipeToShell(command, <<"c", "u", "r", "l">>)
  \/ TestPipeToShell(command, <<"w", "g", "e", "t">>)
  \/ TestDd(command)

ContinueOutput == [continue |-> TRUE]

BlockOutput ==
  [decision |-> "block", reason |-> "Command poses security risk",
   hookSpecificOutput |->
     [hookEventName |-> PreToolUse, permissionDecision |-> "deny",
      permissionDecisionReason |-> "Security policy violation"]]

\* input.f || '' for a string field f
StringOrEmpty(record, f) ==
  IF f \in DOMAIN record THEN record[f] ELSE <<>>

\* the handler of security-audit
SecurityAudit(input) ==
  IF IsNull(input) THEN Threw(TypeErrorNull)
  ELSE IF "tool_name" \in DOMAIN input /\ input.tool_name = Bash
  THEN LET command ==
             IF "tool_input" \in DOMAIN input /\ ~IsNull(input.tool_input)
             THEN StringOrEmpty(input.tool_input, "command")
             ELSE <<>>
       IN IF MatchesDangerousPattern(command)
          THEN Returned(BlockOutput)
          ELSE Returned(ContinueOutput)
  ELSE Returned(ContinueOutput)

\* taskTypes of prompt-analyzer, in the order of the object's keys
taskTypes ==
  << [task |-> "security",
      words |-> { <<"s", "e", "c", "u", "r", "i", "t", "y">>, <<"v", "u",
          "l", "n", "e", "r", "a", "b", "i", "l", "i", "t", "y">>, <<"a",
              "u", "d", "i", "t">>,
                  <<"p", "e", "n", "e", "t", "r", "a", "t", "i", "o",
                      "n">>, <<"a", "t", "t", "a", "c", "k">> }],
     [task |-> "performance",
      words |-> { <<"p", "e", "r", "f", "o", "r", "m", "a", "n", "c",
          "e">>, <<"o", "p", "t", "i", "m", "i", "z", "e">>, <<"s", "l",
              "o", "w">>, <<"f", "a", "s", "t">>,
                  <<"b", "e", "n", "c", "h", "m", "a", "r", "k">> }],
     [task |-> "testing",
      words |-> { <<"t", "e", "s", "t">>, <<"u", "n", "i", "t">>, <<"i",
          "n", "t", "e", "g", "r", "a", "t", "i", "o", "n">>, <<"c", "o",
              "v", "e", "r", "a", "g", "e">>,
                  <<"m", "o", "c", "k">> }],
     [task |-> "deployment",
      words |-> { <<"d", "e", "p", "l", "o", "y">>, <<"p", "r", "o", "d",
          "u", "c", "t", "i", "o", "n">>, <<"r", "e", "l", "e", "a", "s",
              "e">>, <<"c", "i", "/", "c", "d">>,
                  <<"d", "o", "c", "k", "e", "r">> }],
     [task |-> "debugging",
      words |-> { <<"d", "e", "b", "u", "g">>, <<"e", "r", "r", "o",
          "r">>, <<"b", "u", "g">>, <<"f", "i", "x">>, <<"i", "s", "s",
              "u", "e">>,
                  <<"p", "r", "o", "b", "l", "e", "m">> }] >>

\* /w1|w2|.../i.test(prompt)
TestWords(prompt, words) ==
  \E w \in words : includes(toLowerCase(prompt), w)

RECURSIVE DetectedFrom(_, _)
DetectedFrom(prompt, i) ==
  IF i > Len(taskTypes) THEN <<>>
  ELSE IF TestWords(prompt, taskTypes[i].words)
  THEN <<taskTypes[i].task>> \o DetectedFrom(prompt, i + 1)
  ELSE DetectedFrom(prompt, i + 1)

\* the handler of prompt-analyzer
PromptAnalyzer(input) ==
  IF IsNull(input) THEN Threw(TypeErrorNull)
  ELSE LET detectedTasks == DetectedFrom(StringOrEmpty(input, "prompt"), 1)
       IN IF Len(detectedTasks) > 0
          THEN Returned(
                 [continue |-> TRUE,
                  hookSpecificOutput |->
                    [hookEventName |-> UserPromptSubmit,
                     additionalContext |->
                       <<"Detected specialized tasks: ", detectedTasks>>]])
          ELSE Returned(ContinueOutput)

\* the handler of session-initializer
SessionInitializer(input) ==
  IF IsNull(input) THEN Threw(TypeErrorNull)
  ELSE Returned(
         [continue |-> TRUE,
          hookSpecificOutput |->
            [hookEventName |-> SessionStart,
             additionalContext |->
               "Team session initialized with security monitoring"]])

\* the handlers of metrics-collector, session-cleanup and context-preserver
\* read a field of the input and return { continue: true }
ReadsInput(input) ==
  IF IsNull(input) THEN Threw(TypeErrorNull) ELSE Returned(ContinueOutput)

\* the callbacks registerBuiltInHooks adds, in its order
BuiltInHooks ==
  << [event |-> PreToolUse, name |-> "security-audit"],
     [event |-> PostToolUse, name |-> "metrics-collector"],
     [event |-> SessionStart, name |-> "session-initializer"],
     [event |-> SessionEnd, name |-> "session-cleanup"],
     [event |-> UserPromptSubmit, name |-> "prompt-analyzer"],
     [event |-> PreCompact, name |-> "context-preserver"] >>

BuiltInNames == { BuiltInHooks[i].name : i \in 1..Len(BuiltInHooks) }

\* await hookCallback.handler(input, toolUseId, { ...options, memberId })
CallHandler(hookCallback, input) ==
  IF hookCallback.name = "security-audit" THEN SecurityAudit(input)
  ELSE IF hookCallback.name = "prompt-analyzer" THEN PromptAnalyzer(input)
  ELSE IF hookCallback.name = "session-initializer"
  THEN SessionInitializer(input)
  ELSE IF hookCallback.name \in BuiltInNames THEN ReadsInput(input)
  ELSE IF hookCallback.throws THEN Threw(hookCallback.error)
  ELSE Returned(hookCallback.output)

\* eventMetrics after metrics-collector has run on the input
CountTool(metrics, input) ==
  IF ~IsNull(input) /\ "tool_name" \in DOMAIN input /\ input.tool_name /= <<>>
  THEN [t \in DOMAIN metrics \cup {input.tool_name} |->
          IF t = input.tool_name
          THEN (IF t \in DOMAIN metrics THEN metrics[t] ELSE 0) + 1
          ELSE metrics[t]]
  ELSE metrics

\* the history cap and what survives an eviction
HistoryCap == 1000
HistoryKeep == 500

\* recordExecution(event, memberId, success, duration, output) applied to
\* the history; output is <<>> when the argument is left out
recordExecution(history, event, memberId, success, output) ==
  LET entry == IF output = <<>>
               THEN [event |-> event, memberId |-> memberId,
                     success |-> success]
               ELSE [event |-> event, memberId |-> memberId,
                     success |-> success, output |-> output[1]]
      pushed == Append(history, entry)
  IN IF Len(pushed) > HistoryCap
     THEN SubSeq(pushed, Len(pushed) - HistoryKeep + 1, Len(pushed))
     ELSE pushed

\* the wrapper treating a throwing handler as one that returned its error
createSdkHookHandler_rethrows(eventName, hookCallback, memberId, input) ==
  LET called == CallHandler(hookCallback, input)
  IN IF called.threw
     THEN [threw |-> TRUE, error |-> called.error, success |-> TRUE,
           recorded |-> <<>>]
     ELSE [threw |-> FALSE, output |-> called.value, success |-> TRUE,
           recorded |-> <<called.value>>]

\* one call of the function createSdkHookHandler(eventName, hookCallback,
\* memberId) returns: what it resolves to and what it records
createSdkHookHandler(eventName, hookCallback, memberId, input) ==
  LET called == CallHandler(hookCallback, input)
  IN IF called.threw
     THEN [threw |-> FALSE, output |-> ContinueOutput, success |-> FALSE,
           recorded |-> <<>>]
     ELSE [threw |-> FALSE, output |-> called.value, success |-> TRUE,
           recorded |-> <<called.value>>]

\* this.configuration[event], [] when the key is missing
GroupsOf(config, event) ==
  IF event \in DOMAIN config THEN config[event] ELSE <<>>

SetGroups(config, event, groups) ==
  [e \in DOMAIN config \cup {event} |->
     IF e = event THEN groups ELSE config[e]]

\* !m.matcher: the group has no matcher, or the empty string
Unscoped(group) == group.matcher = <<>> \/ group.matcher = << <<>> >>

\* the group found by find(test), 0 when there is none; tests[i] is the
\* outcome of the test on the i-th group
FirstGroup(tests) ==
  IF \E i \in 1..Len(tests) : tests[i]
  THEN CHOOSE i \in 1..Len(tests) :
         tests[i] /\ \A j \in 1..(i - 1) : ~tests[j]
  ELSE 0

\* push the callback to the group at index g, or append a new group
PushTo(groups, g, matcher, hookCallback) ==
  IF g > 0
  THEN [groups EXCEPT ![g].hooks = Append(@, hookCallback)]
  ELSE Append(groups, [matcher |-> matcher, hooks |-> <<hookCallback>>])

\* addHook(event, hookCallback)
addHook(config, event, hookCallback) ==
  LET groups == GroupsOf(config, event)
  IN SetGroups(config, event,
               PushTo(groups,
                      FirstGroup([i \in 1..Len(groups) |->
                                    Unscoped(groups[i])]),
                      <<>>, hookCallback))

\* addCustomHook(event, matcher, hookCallback)
addCustomHook(config, event, matcher, hookCallback) ==
  LET groups == GroupsOf(config, event)
  IN SetGroups(config, event,
               PushTo(groups,
                      FirstGroup([i \in 1..Len(groups) |->
                                    groups[i].matcher = matcher]),
                      matcher, hookCallback))

\* registerBuiltInHooks() applied to the configuration
RECURSIVE registerBuiltInHooks(_, _)
registerBuiltInHooks(config, i) ==
  IF i > Len(BuiltInHooks) THEN config
  ELSE registerBuiltInHooks(
         addHook(config, BuiltInHooks[i].event,
                 [name |-> BuiltInHooks[i].name]),
         i + 1)

\* getHooksForMember(memberId): per event, the groups with each callback
\* wrapped for the member
getHooksForMember(config, memberId) ==
  [event \in DOMAIN config |->
     [g \in 1..Len(config[event]) |->
        [matcher |-> config[event][g].matcher,
         hooks |-> [h \in 1..Len(config[event][g].hooks) |->
                      [eventName |-> event,
                       hookCallback |-> config[event][g].hooks[h],
                       memberId |-> memberId]]]]]

----------------------------------------------------------------------------
(* SessionManager: the metadata file sessions.json                          *)
(*                                                                          *)
(* A SessionMetadata is modelled by its id, its status and its updatedAt.   *)
(* In memory updatedAt is a Date, [date |-> t]; JSON.stringify writes a     *)
(* Date as its ISO string, [iso |-> t], and JSON.parse leaves the string a  *)
(* string.  The file is [exists |-> FALSE], or [exists |-> TRUE, sessions]  *)
(* with the list of entries its text holds.                                 *)

Date(t) == [date |-> t]

\* JSON.stringify of one value of updatedAt
StringifyDate(v) == IF "date" \in DOMAIN v THEN [iso |-> v.date] ELSE v

\* JSON.stringify(sessions, null, 2), as the list JSON.parse gives back
StringifySessions(sessions) ==
  [i \in 1..Len(sessions) |->
     [id |-> sessions[i].id, status |-> sessions[i].status,
      updatedAt |-> StringifyDate(sessions[i].updatedAt)]]

\* sessions.findIndex(s => s.id === metadata.id), 0 for -1
FindIndex(sessions, id) ==
  IF \E i \in 1..Len(sessions) : sessions[i].id = id
  THEN CHOOSE i \in 1..Len(sessions) :
         sessions[i].id = id /\ \A j \in 1..(i - 1) : sessions[j].id /= id
  ELSE 0

\* "Update or add session"
UpdateOrAdd(sessions, metadata) ==
  IF FindIndex(sessions, metadata.id) > 0
  THEN [sessions EXCEPT ![FindIndex(sessions, metadata.id)] = metadata]
  ELSE Append(sessions, metadata)

\* new SessionManager(), no call made yet
SessionManagerNew ==
  /\ sessionsFile = [exists |-> FALSE]
  /\ metadataCalls = <<>>

----------------------------------------------------------------------------
(* Bounds and input sets of the CostTracker specification                  *)

MaxSteps == 3

MsgIds == {"msg_1", "msg_2"}

Usages ==
  { [input_tokens |-> 100, output_tokens |-> 200],
    [input_tokens |-> 150, output_tokens |-> 300,
     cache_creation_input_tokens |-> 50, cache_read_input_tokens |-> 25],
    [output_tokens |-> 200],
    << >> }

Messages ==
  UNION {
    { [type |-> ty, id |-> id, usage |-> u] :
        ty \in {"assistant", "user"}, id \in MsgIds, u \in Usages },
    { [type |-> "assistant", id |-> id] : id \in MsgIds },
    { [type |-> "assistant", usage |-> u] : u \in Usages } }

\* new CostTracker()
CostTrackerNew ==
  /\ processedMessageIds = {}
  /\ stepUsages = <<>>
  /\ ctCall = [op |-> "none"]

\* processMessage(message); ctCall.before is the ledger the call found
ProcessMessage(message) ==
  /\ IF NotBillable(message) \/ AlreadyProcessed(processedMessageIds, message)
     THEN /\ ctCall' = [op |-> "processMessage", message |-> message,
                        before |-> stepUsages, returned |-> "null"]
          /\ UNCHANGED <<processedMessageIds, stepUsages>>
          /\ UNCHANGED <<permVars, teamVars, hookVars, storeVars>>
     ELSE /\ Len(stepUsages) < MaxSteps
          /\ processedMessageIds' =
               processedMessageIds \cup {MessageId(message)}
          /\ stepUsages' = Append(stepUsages, StepUsageOf(message))
          /\ ctCall' = [op |-> "processMessage", message |-> message,
                        before |-> stepUsages, returned |-> "stepUsage",
                        stepUsage |-> StepUsageOf(message)]
          /\ UNCHANGED <<permVars, teamVars, hookVars, storeVars>>

\* reset()
Reset ==
  /\ processedMessageIds' = {}
  /\ stepUsages' = <<>>
  /\ ctCall' = [op |-> "reset"]
  /\ UNCHANGED <<permVars, teamVars, hookVars, storeVars>>

----------------------------------------------------------------------------
(* Bounds and input sets of the PermissionManager specification            *)

MaxAudit == 1

\* the rules a policy is drawn from, bucket by bucket
DenyPool == << <<"W", "r", "i", "t", "e", "(", ".", "e", "n", "v",
    ")">>, <<"B", "a", "s", "h", "(", "s", "u", "d", "o", ":", "*",
        ")">>, <<"W", "e", "b", "F", "e", "t", "c", "h", "(", "(", "*",
            ")">> >>

AllowPool == << <<"R", "e", "a", "d", "(", "*", ")">>, <<"B", "a", "s",
    "h">>, <<"W", "r", "i", "t", "e", "(", "*", ")">> >>

AskPool == << <<"B", "a", "s", "h", "(", "g", "i", "t", " ", "p", "u",
    "s", "h", ":", "*", ")">>, <<"W", "r", "i", "t", "e", "(", ".", "e",
        "n", "v", ")">>, <<"W", "e", "b", "F", "e", "t", "c", "h">> >>

\* the rules of pool whose index is in keep, in pool order
RECURSIVE PickFrom(_, _, _)
PickFrom(pool, i, keep) ==
  IF i > Len(pool) THEN <<>>
  ELSE (IF i \in keep THEN <<pool[i]>> ELSE <<>>) \o PickFrom(pool, i + 1, keep)

Buckets(pool) == {PickFrom(pool, 1, keep) : keep \in SUBSET (1..Len(pool))}

Policies ==
  [deny : Buckets(DenyPool), allow : Buckets(AllowPool), ask : Buckets(AskPool)]

\* the workspace of the team configuration: path.join(process.cwd(),
\* 'workspace') for a process started in /home/dev
workspace == <<"/", "h", "o", "m", "e", "/", "d", "e", "v", "/", "w", "o",
    "r", "k", "s", "p", "a", "c", "e">>

BashInputs ==
  { [command |-> <<"s", "u", "d", "o", " ", "l",
      "s">>], [command |-> <<"l", "s", " ", "-", "l", "a">>],
    [command |-> <<"g", "i", "t", " ", "p", "u", "s", "h", " ",
        "x">>], [command |-> <<"n", "p", "m", " ", "x">>],
    NullInput, << >> }

Requests ==
  UNION {
    { [toolName |-> Bash, input |-> i, options |-> o] :
        i \in BashInputs, o \in { << >>, [priority |-> "high"] } },
    { [toolName |-> Write, input |-> i, options |-> << >>] :
        i \in { [file_path |-> <<".", "e", "n",
            "v">>], [file_path |-> <<"/", "w", "o", "r", "k", "s", "p",
                "a", "c", "e", "/", "a">>],
                NullInput } },
    { [toolName |-> Read, input |-> [file_path |-> <<"/", "e", "t", "c",
        "/", "x">>],
       options |-> [priority |-> "low", memberId |-> "m1",
                    sessionId |-> "s1"]],
      [toolName |-> WebFetch, input |-> [url |-> <<"x", ".", "i", "o">>],
       options |-> << >>],
      [toolName |-> Grep, input |-> [pattern |-> <<"x">>], options |-> << >>],
      [toolName |-> <<"T", "a", "s", "k">>, input |-> << >>,
       options |-> [priority |-> "critical"]],
      [toolName |-> Edit, input |-> [file_path |-> <<"/", "e", "t", "c",
          "/", "w", "o", "r", "k", "s", "p", "a", "c", "e", "/", "x">>],
       options |-> [priority |-> "high"]],
      [toolName |-> Edit, input |-> [file_path |-> <<"/", "e", "t", "c",
          "/", "p", "a", "s", "s", "w", "d">>],
       options |-> [priority |-> "critical"]],
      [toolName |-> MultiEdit,
       input |-> [file_path |-> <<"/", "h", "o", "m", "e", "/", "d", "e",
           "v", "/", "w", "o", "r", "k", "s", "p", "a", "c", "e", "/", "a">>],
       options |-> << >>],
      [toolName |-> Glob, input |-> NullInput,
       options |-> [priority |-> "high"]] } }

\* new PermissionManager(policy)
PermissionManagerNew(policy) ==
  /\ rules = policy
  /\ auditLog = <<>>
  /\ permCall = [op |-> "none"]

\* one call of the handler returned by getPermissionHandler, the n-th of
\* this manager; permCall.before is the ledger the call found
Handle(req, n) ==
  LET context  == ContextOf(req.toolName, req.input, req.options)
      decision == evaluatePermission(context)
  IN /\ auditLog' = logDecision(auditLog, context, decision.result,
                                decision.reason)
     /\ permCall' = [op |-> "canUseTool", context |-> context,
                     before |-> auditLog, outcome |-> "returned",
                     result |-> decision.result, seq |-> n]
     /\ UNCHANGED rules

Evaluate(req) ==
  /\ Len(auditLog) < MaxAudit
  /\ Handle(req, Len(auditLog) + 1)
  /\ UNCHANGED <<costVars, teamVars, hookVars, storeVars>>

----------------------------------------------------------------------------
(* Inputs of the rule-matching specification: matchesRule applied to one   *)
(* Bash rule and one command                                               *)

BashRules ==
  { <<"B", "a", "s", "h", "(", "g", "i", "t", ":", "*", ")">>, <<"B", "a",
      "s", "h", "(", "g", "i", "t", " ", "p", "u", "s", "h", ":", "*",
          ")">>, <<"B", "a", "s", "h", "(", "l", "s", ":", "*",
              ")">>, <<"B", "a", "s", "h", "(", ":", "*", ")">>,
    <<"B", "a", "s", "h", "(", "g", "i", "t", " ", "s", "t", "a", "t",
        "u", "s", ")">>, <<"B", "a", "s", "h", "(", "r", "m", " ", "-",
            "r", "f", " ", "/", ")">>, <<"B", "a", "s", "h", "(", "d",
                "a", "n", "g", "e", "r", "o", "u", "s", ")">>,
    <<"B", "a", "s", "h", "(", "c", "u", "r", "l", ":", "*", "|", "s",
        "h", ")">> }

BashCommands ==
  { <<"g", "i", "t", " ", "s", "t", "a", "t", "u", "s">>, <<"g", "i", "t",
      " ", "p", "u", "s", "h", " ", "o", "r", "i", "g", "i", "n">>, <<"g",
          "i", "t">>, <<"g", "i">>, <<"e", "c", "h", "o", " ", "g", "i",
              "t">>,
    <<"x", "g", "i", "t", " ", "p", "u", "s", "h">>, <<"g", "i", "t", " ",
        "s", "t", "a", "t", "u", "s", "x">>, <<"l", "s", " ", "-", "l",
            "a", " ", "/", "h", "o", "m", "e">>, <<"l", "s">>,
    <<"c", "a", "t", " ", "l", "s", ":", "*">>, <<"r", "m", " ", "-", "r",
        "f", " ", "/">>, <<"s", "u", "d", "o", " ", "r", "m", " ",
            "x">>, <<"d", "a", "n", "g", "e", "r", "o", "u", "s">>,
    <<"c", "u", "r", "l", ":", "*", "|", "s", "h">>, <<>> }

\* this.matchesRule(rule, "Bash", { command })
ApplyBashRule(rule, command) ==
  /\ permCall' = [op |-> "matchesRule", rule |-> rule, command |-> command,
                  outcome |-> matchesRule(rule, Bash, [command |-> command])]
  /\ UNCHANGED <<rules, auditLog>>
  /\ UNCHANGED <<costVars, teamVars, hookVars, storeVars>>

----------------------------------------------------------------------------
(* Inputs of the member-selection specification: selectTeamMember applied  *)
(* to one roster (config.members) and one task                             *)

MaxRoster == 3

\* members a configuration may list: three of the shipped ones, one with
\* the fallback role, one whose role is written with capitals
MemberPool ==
  { members[1], members[2],
    [id |-> "security-specialist", role |-> <<"s", "e", "c", "u", "r",
        "i", "t", "y", "-", "e", "n", "g", "i", "n", "e", "e", "r">>,
     specialization |-> << <<"p", "e", "n", "e", "t", "r", "a", "t", "i",
         "o", "n", "-", "t", "e", "s", "t", "i", "n", "g">>, <<"c", "o",
             "d", "e", "-", "r", "e", "v", "i", "e", "w">>,
                           <<"c", "o", "m", "p", "l", "i", "a", "n", "c",
                               "e">>, <<"t", "h", "r", "e", "a", "t", "-",
                                   "m", "o", "d", "e", "l", "i", "n",
                                       "g">> >>],
    [id |-> "generalist", role |-> <<"f", "u", "l", "l", "-", "s", "t",
        "a", "c", "k", "-", "d", "e", "v", "e", "l", "o", "p", "e", "r">>,
     specialization |-> << <<"g", "e", "n", "e", "r", "a", "l">> >>],
    [id |-> "release-lead", role |-> <<"D", "e", "p", "l", "o", "y", "m",
        "e", "n", "t", "-", "L", "e", "a", "d">>,
     specialization |-> << <<"r", "e", "l", "e", "a", "s", "e", "s">> >>],
    [id |-> "test-lead", role |-> <<"t", "e", "s", "t", "i", "n", "g",
        "-", "l", "e", "a", "d">>,
     specialization |-> << <<"q", "a">> >>] }

\* the rosters of at most MaxRoster distinct members, the empty one included
Rosters ==
  UNION { { r \in [1..n -> MemberPool] :
              \A i, j \in 1..n : i /= j => r[i] /= r[j] } : n \in 0..MaxRoster }

SelectTasks ==
  { [type |-> t, priority |-> p] :
      t \in { <<"t", "e", "s", "t", "i", "n", "g">>, <<"i", "m", "p", "l",
          "e", "m", "e", "n", "t", "a", "t", "i", "o", "n">>, <<"d", "e",
              "p", "l", "o", "y", "m", "e", "n", "t">> },
      p \in { "low", "critical" } }

\* new TeamManager(config) with config.members = roster: no session yet
TeamManagerConfigured(roster) ==
  /\ activeSessions = {}
  /\ session = <<>>
  /\ execs = <<>>
  /\ batches = <<>>
  /\ endCalls = <<>>
  /\ reports = <<>>
  /\ ended = {}
  /\ teamCall = [op |-> "new", roster |-> roster]
  /\ taskObjects = <<>>

\* this.selectTeamMember(task); this.config.members is never assigned again
ApplySelectTeamMember(task) ==
  /\ teamCall' = [op |-> "selectTeamMember", roster |-> teamCall.roster,
                  task |-> task,
                  member |-> selectTeamMember(teamCall.roster, task)]
  /\ UNCHANGED <<activeSessions, session, execs, batches, endCalls, reports,
                 ended>>
  /\ UNCHANGED <<costVars, permVars, hookVars, storeVars, taskObjects>>

----------------------------------------------------------------------------
(* Inputs of the audit-ledger specification: a manager whose handler has   *)
(* already been called a number of times, then called MaxCalls times more  *)

MaxCalls == 3

AuditPolicy ==
  [deny |-> << <<"W", "r", "i", "t", "e", "(", ".", "e", "n", "v",
      ")">> >>, allow |-> << <<"R", "e", "a", "d", "(", "*",
          ")">> >>, ask |-> <<>>]

AuditRequests ==
  << [toolName |-> Read, input |-> [file_path |-> <<"/", "w", "o", "r",
      "k", "s", "p", "a", "c", "e", "/", "a">>],
      options |-> << >>],
     [toolName |-> Write, input |-> [file_path |-> <<".", "e", "n", "v">>],
      options |-> << >>],
     [toolName |-> Bash, input |-> [command |-> <<"m", "a", "k", "e">>],
      options |-> [priority |-> "high"]],
     [toolName |-> Bash, input |-> NullInput, options |-> << >>] >>

\* the numbers of earlier calls: none, a few, and around the cap
EarlierCalls == {0, 2, AuditKeep - 1, AuditCap - 2, AuditCap - 1, AuditCap}

\* the entry a call of the handler for the request req leaves in the ledger
EntryOf(req) ==
  LET context  == ContextOf(req.toolName, req.input, req.options)
      decision == evaluatePermission(context)
  IN [context |-> context, result |-> decision.result,
      reason |-> decision.reason]

\* the ledger after n calls that went through AuditRequests in turn; n is
\* at most AuditCap, so no eviction has happened yet
LedgerAfter(n) ==
  [i \in 1..n |-> EntryOf(AuditRequests[(i % Len(AuditRequests)) + 1])]

\* new PermissionManager(AuditPolicy) followed by n calls of the handler
PermissionManagerUsed(n) ==
  /\ rules = AuditPolicy
  /\ auditLog = LedgerAfter(n)
  /\ permCall = [op |-> "none", seq |-> 0]

\* one more call of the handler
HandleNext(req) ==
  /\ permCall.seq < MaxCalls
  /\ Handle(req, permCall.seq + 1)
  /\ UNCHANGED <<costVars, teamVars, hookVars, storeVars>>

----------------------------------------------------------------------------
(* Bounds and input sets of the HookManager specifications                 *)

MaxCustomHooks == 2
MaxRuns == 1

\* the most groups an event can have, and the most callbacks a group can
\* have, after MaxCustomHooks registrations
MaxGroups == MaxCustomHooks + 1
MaxGroupSize == MaxCustomHooks + 1

\* config.hooks of createTeamConfiguration
ShippedHooks ==
  [event \in {PreToolUse, PostToolUse, UserPromptSubmit, SessionStart,
              SessionEnd} |-> <<>>]

CustomEvents == {PreToolUse, SessionStart}

FiredEvents ==
  {PreToolUse, PostToolUse, UserPromptSubmit, SessionStart, SessionEnd,
   PreCompact}

\* no matcher, or a tool name
Matchers == { <<>>, <<Bash>> }

\* custom callbacks: one that returns an output of its own, one that
\* throws, one that returns nothing
CustomCallbacks ==
  { [name |-> "approve-all", throws |-> FALSE,
     output |-> [decision |-> "approve", systemMessage |-> "ok"]],
    [name |-> "broken", throws |-> TRUE, error |-> "boom"],
    [name |-> "silent", throws |-> FALSE, output |-> [undefined |-> TRUE]] }

MemberIds == {"senior-architect", "frontend-specialist"}

HookInputs ==
  { NullInput,
    [hook_event_name |-> PreToolUse, session_id |-> "s1", tool_name |-> Bash,
     tool_input |-> [command |-> <<"s", "u", "d", "o", " ", "l", "s">>]],
    [hook_event_name |-> PreToolUse, session_id |-> "s1", tool_name |-> Bash,
     tool_input |-> [command |-> <<"l", "s">>]],
    [hook_event_name |-> PostToolUse, session_id |-> "s1", tool_name |-> Read,
     tool_input |-> [file_path |-> <<"/", "w", "o", "r", "k", "s", "p",
         "a", "c", "e", "/", "a">>]],
    [hook_event_name |-> UserPromptSubmit, session_id |-> "s1",
     prompt |-> <<"F", "i", "x", " ", "t", "h", "e", " ", "D", "o", "c",
         "k", "e", "r", " ", "b", "u", "g">>],
    [hook_event_name |-> SessionStart, session_id |-> "s1"] }

\* new HookManager(configuration)
HookManagerNew(config) ==
  /\ configuration = registerBuiltInHooks(config, 1)
  /\ eventMetrics = << >>
  /\ executionHistory = <<>>
  /\ registered =
       [event \in FiredEvents |->
          IF \E i \in 1..Len(BuiltInHooks) : BuiltInHooks[i].event = event
          THEN <<BuiltInHooks[CHOOSE i \in 1..Len(BuiltInHooks) :
                                BuiltInHooks[i].event = event].name>>
          ELSE <<>>]
  /\ hookCall = [op |-> "none"]

\* the number of addCustomHook calls so far
CustomCount ==
  LET n(event) == Len(registered[event]) - 1
  IN n(PreToolUse) + n(PostToolUse) + n(UserPromptSubmit) + n(SessionStart)
       + n(SessionEnd) + n(PreCompact)

\* addCustomHook(event, matcher, hookCallback), for a callback name the
\* event does not have yet
AddCustomHook(event, matcher, hookCallback) ==
  /\ CustomCount < MaxCustomHooks
  /\ \A i \in 1..Len(registered[event]) :
       registered[event][i] /= hookCallback.name
  /\ configuration' = addCustomHook(configuration, event, matcher,
                                    hookCallback)
  /\ registered' = [registered EXCEPT ![event] = Append(@, hookCallback.name)]
  /\ hookCall' = [op |-> "addCustomHook", event |-> event,
                  matcher |-> matcher, name |-> hookCallback.name]
  /\ UNCHANGED <<eventMetrics, executionHistory>>
  /\ UNCHANGED <<costVars, permVars, teamVars, storeVars>>

\* the engine calls the h-th wrapped callback of the g-th group that
\* getHooksForMember(memberId) lists under the event; hookCall.handler is
\* what the callback's handler did
RunHook(event, g, h, memberId, input) ==
  /\ Len(executionHistory) < MaxRuns
  /\ event \in DOMAIN configuration
  /\ g \in 1..Len(configuration[event])
  /\ h \in 1..Len(configuration[event][g].hooks)
  /\ LET wrapped == getHooksForMember(configuration, memberId)[event][g]
                      .hooks[h]
         done == createSdkHookHandler(wrapped.eventName,
                                      wrapped.hookCallback,
                                      wrapped.memberId, input)
     IN /\ executionHistory' =
             recordExecution(executionHistory, wrapped.eventName,
                             wrapped.memberId, done.success, done.recorded)
        /\ eventMetrics' =
             IF wrapped.hookCallback.name = "metrics-collector"
             THEN CountTool(eventMetrics, input)
             ELSE eventMetrics
        /\ hookCall' =
             [op |-> "hook", event |-> event,
              name |-> wrapped.hookCallback.name, memberId |-> memberId,
              input |-> input, before |-> executionHistory,
              handler |-> CallHandler(wrapped.hookCallback, input),
              done |-> done]
  /\ UNCHANGED <<configuration, registered>>
  /\ UNCHANGED <<costVars, permVars, teamVars, storeVars>>

\* the gate specification: the engine asks both gates about a Bash request
GatePolicies ==
  { [deny |-> <<>>, allow |-> <<>>, ask |-> <<>>],
    [deny |-> <<>>, allow |-> << <<"B", "a", "s", "h">> >>, ask |-> <<>>],
    [deny |-> << <<"B", "a", "s", "h", "(", "s", "u", "d", "o", ":", "*",
        ")">> >>, allow |-> <<>>, ask |-> <<>>] }

GateCommands ==
  { <<"s", "u", "d", "o", " ", "l", "s">>, <<"s", "u", "d", "o">>, <<"r",
      "m", " ", "-", "r", "f", " ", "/">>, <<"r", "m", " ", " ", "-", "r",
          "f", " ", "/", "h", "o", "m", "e", "/", "w", "o", "r", "k", "s",
              "p", "a", "c", "e">>,
    <<"r", "m", " ", "-", "r", "f", " ", "/", "t", "m", "p">>, <<"c", "u",
        "r", "l", " ", "h", "t", "t", "p", ":", "/", "/", "x", " ", "|",
            " ", "s", "h">>, <<"c", "u", "r", "l", " ", "x", " ", "|",
                "s", "h">>, <<"w", "g", "e", "t", " ", "x", "|", "b", "a",
                    "s", "h">>,
    <<"d", "d", " ", "i", "f", "=", "/", "d", "e", "v", "/", "z", "e",
        "r", "o">>, <<"l", "s", " ", "-", "l", "a">>, <<"e", "c", "h",
            "o", " ", "s", "u", "d", "o">>, <<"g", "i", "t", " ", "p",
                "u", "s", "h">> }

GateRequests ==
  { [toolName |-> Bash, input |-> [command |-> c], options |-> o] :
      c \in GateCommands,
      o \in { << >>, [priority |-> "high"], [priority |-> "critical"] } }

\* the PreToolUse payload the engine builds for the request
PreToolUseInput(req) ==
  [hook_event_name |-> PreToolUse, session_id |-> "s1",
   tool_name |-> req.toolName, tool_input |-> req.input]

----------------------------------------------------------------------------
(* Bounds and input sets of the TeamManager specification                  *)

MaxSessions == 1

MaxTasks == 2

MaxEnds == 1

\* identifiers a caller may pass: those startTeamSession can return, and
\* one it never returns
InvalidSession == MaxSessions + 1

SessionIds == (1..MaxSessions) \cup {InvalidSession}

TaskRequests ==
  { [type |-> <<"i", "m", "p", "l", "e", "m", "e", "n", "t", "a", "t",
      "i", "o", "n">>, priority |-> "medium"],
    [type |-> <<"t", "e", "s", "t", "i", "n",
        "g">>, priority |-> "critical"] }

\* the usage object of a success record: all four counters, or only the
\* output counter
ResultUsages ==
  { [input_tokens |-> 100, output_tokens |-> 200,
     cache_creation_input_tokens |-> 50, cache_read_input_tokens |-> 25],
    [output_tokens |-> 200] }

\* what the engine may throw: an API failure, or the abort error it raises
\* when its run is cancelled
AbortError == "The operation was aborted"

EngineErrors == {"Simulated API failure", AbortError}

Durations == {7}

\* the lists of task requests of length 1..n
RECURSIVE RequestLists(_)
RequestLists(n) ==
  IF n = 0 THEN {}
  ELSE { <<r>> : r \in TaskRequests }
       \cup { Append(l, r) : l \in RequestLists(n - 1), r \in TaskRequests }

\* new TeamManager(config)
TeamManagerNew ==
  /\ activeSessions = {}
  /\ session = << >>
  /\ execs = <<>>
  /\ batches = <<>>
  /\ endCalls = <<>>
  /\ reports = <<>>
  /\ ended = {}
  /\ teamCall = [op |-> "none"]
  /\ taskObjects = <<>>

\* startTeamSession(sessionName); maxSessions bounds the sessions started
startTeamSession(maxSessions) ==
  LET sessionId == Len(session) + 1
  IN /\ Len(session) < maxSessions
     /\ session' = Append(session, NewSession(sessionId))
     /\ activeSessions' = activeSessions \cup {sessionId}
     /\ teamCall' = [op |-> "none"]
     /\ UNCHANGED <<execs, batches, endCalls, reports, ended>>
     /\ UNCHANGED <<costVars, permVars, hookVars, storeVars, taskObjects>>

StartTeamSession == startTeamSession(MaxSessions)

\* The synchronous head of executeTask for the task request req of session
\* sessionId, after member selection: the task object with assignedTo set,
\* the fresh taskId, and the engine invoked by query(...).
StartedTask(sessionId, req, taskId) ==
  [sid |-> sessionId,
   task |-> [type |-> req.type, priority |-> req.priority,
             assignedTo |-> selectTeamMember(members, req).id],
   taskId |-> taskId,
   pc |-> "running",
   engine |-> "running"]

\* assignTask(sessionId, task) up to the first await of executeTask, or
\* its rejection
assignTask(sessionId, req) ==
  IF SessionMissing(activeSessions, sessionId)
  THEN /\ teamCall' = [op |-> "assignTask", sid |-> sessionId,
                       outcome |-> "rejected",
                       error |-> SessionNotFound(sessionId)]
       /\ UNCHANGED <<activeSessions, session, execs, batches, endCalls,
                      reports, ended>>
       /\ UNCHANGED <<costVars, permVars, hookVars, storeVars>>
  ELSE /\ Len(execs) < MaxTasks
       /\ execs' = Append(execs, StartedTask(sessionId, req, Len(execs) + 1))
       /\ session' =
            [session EXCEPT
               ![sessionId].currentTasks = Append(@, Len(execs) + 1),
               ![sessionId].activeMembers =
                  Append(@, selectTeamMember(members, req).id)]
       /\ teamCall' = [op |-> "assignTask", sid |-> sessionId,
                       outcome |-> "accepted"]
       /\ UNCHANGED <<activeSessions, batches, endCalls, reports, ended>>
       /\ UNCHANGED <<costVars, permVars, hookVars, storeVars>>

\* executeParallelTasks(sessionId, tasks) up to "await Promise.all", or its
\* rejection: every task gets its member and its executeTask is started, in
\* list order
executeParallelTasks(sessionId, reqs) ==
  IF SessionMissing(activeSessions, sessionId)
  THEN /\ teamCall' = [op |-> "executeParallelTasks", sid |-> sessionId,
                       outcome |-> "rejected",
                       error |-> SessionNotFound(sessionId)]
       /\ UNCHANGED <<activeSessions, session, execs, batches, endCalls,
                      reports, ended>>
       /\ UNCHANGED <<costVars, permVars, hookVars, storeVars>>
  ELSE /\ Len(execs) + Len(reqs) <= MaxTasks
       /\ execs' =
            execs \o [i \in 1..Len(reqs) |->
                        StartedTask(sessionId, reqs[i], Len(execs) + i)]
       /\ batches' =
            Append(batches,
                   [sid |-> sessionId, tasks |-> reqs,
                    execs |-> [i \in 1..Len(reqs) |-> Len(execs) + i],
                    pc |-> "awaiting"])
       /\ teamCall' = [op |-> "executeParallelTasks", sid |-> sessionId,
                       outcome |-> "accepted"]
       /\ UNCHANGED <<activeSessions, session, endCalls, reports, ended>>
       /\ UNCHANGED <<costVars, permVars, hookVars, storeVars>>

\* assignTask called with a task object the model does not follow
AssignTask(sessionId, req) ==
  assignTask(sessionId, req) /\ UNCHANGED taskObjects

\* executeParallelTasks called with task objects the model does not follow
ExecuteParallelTasks(sessionId, reqs) ==
  executeParallelTasks(sessionId, reqs) /\ UNCHANGED taskObjects

Running(e) == e \in 1..Len(execs) /\ execs[e].pc = "running"

\* the engine yields a result record that is not tagged success (for
\* instance subtype "error_max_turns"): the test of the loop fails and the
\* loop asks the engine for its next message
EngineYieldsFailure(e) ==
  /\ Running(e)
  /\ execs[e].engine = "running"
  /\ execs' = [execs EXCEPT ![e].engine = "failureSeen"]
  /\ teamCall' = [op |-> "none"]
  /\ UNCHANGED <<activeSessions, session, batches, endCalls, reports, ended>>
  /\ UNCHANGED <<costVars, permVars, hookVars, storeVars, taskObjects>>

\* const session = this.activeSessions.get(sessionId)!: the session object
\* the execution e holds
SessionHeld_first(e) == 1

SessionHeld(e) == execs[e].sid

\* the tail of executeTask after the loop: taskResult is built, the session
\* object is updated and taskResult is returned
Complete(e, result, usage, duration, how) ==
  LET taskResult == CompletedResult(execs[e].taskId, result, usage, duration)
  IN /\ execs' = [i \in 1..Len(execs) |->
                    IF i = e
                    THEN [sid |-> execs[e].sid, task |-> execs[e].task,
                          taskId |-> execs[e].taskId, pc |-> "returned",
                          engine |-> how, result |-> taskResult]
                    ELSE execs[i]]
     /\ session' =
          [session EXCEPT
             ![SessionHeld(e)] = UpdateSession(@, taskResult, usage)]
     /\ teamCall' = [op |-> "none"]
     /\ UNCHANGED <<activeSessions, batches, endCalls, reports, ended>>
     /\ UNCHANGED <<costVars, permVars, hookVars, storeVars, taskObjects>>

\* the engine yields { type: "result", subtype: "success", result, usage }
EngineYieldsSuccess(e, usage, duration) ==
  /\ Running(e)
  /\ Complete(e, <<"Task completed successfully">>, usage, duration,
              "success")

\* the engine's generator finishes without a success record
EngineEnds(e, duration) ==
  /\ Running(e)
  /\ Complete(e, <<>>, << >>, duration, "ended")

\* the engine throws: the catch block returns the failed TaskResult
EngineThrows(e, error) ==
  /\ Running(e)
  /\ execs' = [i \in 1..Len(execs) |->
                 IF i = e
                 THEN [sid |-> execs[e].sid, task |-> execs[e].task,
                       taskId |-> execs[e].taskId, pc |-> "returned",
                       engine |-> "threw",
                       result |-> FailedResult(execs[e].taskId, error)]
                 ELSE execs[i]]
  /\ teamCall' = [op |-> "none"]
  /\ UNCHANGED <<activeSessions, session, batches, endCalls, reports, ended>>
  /\ UNCHANGED <<costVars, permVars, hookVars, storeVars, taskObjects>>

\* Promise.all(taskPromises) resolves and executeParallelTasks returns
ParallelReturns(b) ==
  /\ b \in 1..Len(batches)
  /\ batches[b].pc = "awaiting"
  /\ \A i \in 1..Len(batches[b].execs) :
       execs[batches[b].execs[i]].pc = "returned"
  /\ batches' =
       [i \in 1..Len(batches) |->
          IF i = b
          THEN [sid |-> batches[b].sid, tasks |-> batches[b].tasks,
                execs |-> batches[b].execs, pc |-> "returned",
                results |-> BatchResults(batches[b].execs, execs)]
          ELSE batches[i]]
  /\ teamCall' = [op |-> "none"]
  /\ UNCHANGED <<activeSessions, session, execs, endCalls, reports, ended>>
  /\ UNCHANGED <<costVars, permVars, hookVars, storeVars, taskObjects>>

\* endSession(sessionId) up to "await this.sessionManager.writeFile", or
\* its rejection; the report is built and serialised before the await.
\* maxEnds bounds the calls that proceed.
endSession(sessionId, maxEnds) ==
  IF SessionMissing(activeSessions, sessionId)
  THEN /\ teamCall' = [op |-> "endSession", sid |-> sessionId,
                       outcome |-> "rejected",
                       error |-> SessionNotFound(sessionId)]
       /\ UNCHANGED <<activeSessions, session, execs, batches, endCalls,
                      reports, ended>>
       /\ UNCHANGED <<costVars, permVars, hookVars, storeVars, taskObjects>>
  ELSE /\ Len(endCalls) < maxEnds
       /\ endCalls' = Append(endCalls,
                             [sid |-> sessionId, pc |-> "writing",
                              report |->
                                StringifyReport(ReportOf(session[sessionId]))])
       /\ teamCall' = [op |-> "endSession", sid |-> sessionId,
                       outcome |-> "accepted"]
       /\ UNCHANGED <<activeSessions, session, execs, batches, reports,
                      ended>>
       /\ UNCHANGED <<costVars, permVars, hookVars, storeVars, taskObjects>>

EndSession(sessionId) == endSession(sessionId, MaxEnds)

\* the report sink stores the report
ReportWritten(c) ==
  /\ c \in 1..Len(endCalls)
  /\ endCalls[c].pc = "writing"
  /\ reports' = Append(reports, endCalls[c].report)
  /\ endCalls' = [endCalls EXCEPT ![c].pc = "written"]
  /\ teamCall' = [op |-> "none"]
  /\ UNCHANGED <<activeSessions, session, execs, batches, ended>>
  /\ UNCHANGED <<costVars, permVars, hookVars, storeVars, taskObjects>>

\* what the report sink may fail with
WriteErrors == {"ENOSPC: no space left on device",
    "EACCES: permission denied"}

ReportWriteFails_removesSession(c) ==
  /\ c \in 1..Len(endCalls)
  /\ endCalls[c].pc = "writing"
  /\ endCalls' = [endCalls EXCEPT ![c].pc = "failed"]
  /\ activeSessions' = DeleteSession(activeSessions, endCalls[c].sid)
  /\ \E error \in WriteErrors :
       teamCall' = [op |-> "endSessionRejects", call |-> c, error |-> error]
  /\ UNCHANGED <<session, execs, batches, reports, ended>>
  /\ UNCHANGED <<costVars, permVars, hookVars, storeVars, taskObjects>>

\* the report sink fails: generateSessionReport and then endSession reject
\* with the sink's error, the statements after the await are not reached
ReportWriteFails(c) ==
  /\ c \in 1..Len(endCalls)
  /\ endCalls[c].pc = "writing"
  /\ endCalls' = [endCalls EXCEPT ![c].pc = "failed"]
  /\ \E error \in WriteErrors :
       teamCall' = [op |-> "endSessionRejects", call |-> c, error |-> error]
  /\ UNCHANGED <<activeSessions, session, execs, batches, reports, ended>>
  /\ UNCHANGED <<costVars, permVars, hookVars, storeVars, taskObjects>>

\* endSession after the await: the session leaves the live table and the
\* call returns
EndSessionReturns(c) ==
  /\ c \in 1..Len(endCalls)
  /\ endCalls[c].pc = "written"
  /\ activeSessions' = DeleteSession(activeSessions, endCalls[c].sid)
  /\ ended' = ended \cup {endCalls[c].sid}
  /\ endCalls' = [endCalls EXCEPT ![c].pc = "returned"]
  /\ teamCall' = [op |-> "none"]
  /\ UNCHANGED <<session, execs, batches, reports>>
  /\ UNCHANGED <<costVars, permVars, hookVars, storeVars, taskObjects>>

----------------------------------------------------------------------------
(* Inputs of the session-identifier specification.  Here the identifier is *)
(* what generateSessionId computes, from the clock and the random number   *)
(* generator, and the session objects are kept by identifier.  Date.now()  *)
(* does not advance between calls made in the same millisecond, and        *)
(* nothing in the program keeps the random suffix from repeating.          *)

\* two consecutive readings of Date.now()
ClockValues == {1000, 1001}

\* Math.random().toString(36).substr(2, 9)
RandomSuffixes == { <<"k", "3", "j", "9", "x", "0", "q", "2",
    "a">>, <<"z", "8", "f", "1", "m", "4", "c", "7", "b">> }

\* `session_${Date.now()}_${Math.random().toString(36).substr(2, 9)}`
generateSessionId(now, suffix) == <<"session_", now, "_", suffix>>

GeneratedIds ==
  { generateSessionId(now, suffix) :
      now \in ClockValues, suffix \in RandomSuffixes }

\* this.activeSessions.set(sessionId, s) applied to the session objects
SetSession(objects, sessionId, s) ==
  [id \in DOMAIN objects \cup {sessionId} |->
     IF id = sessionId THEN s ELSE objects[id]]

\* startTeamSession(sessionName) when the clock reads now and the random
\* number generator yields suffix; teamCall.live and teamCall.objects are
\* the table the call found
StartTeamSessionAt(now, suffix) ==
  LET sessionId == generateSessionId(now, suffix)
  IN /\ session' = SetSession(session, sessionId, NewSession(sessionId))
     /\ activeSessions' = activeSessions \cup {sessionId}
     /\ teamCall' = [op |-> "startTeamSession", sid |-> sessionId,
                     outcome |-> "returned", live |-> activeSessions,
                     objects |-> session]
     /\ UNCHANGED <<execs, batches, endCalls, reports, ended>>
     /\ UNCHANGED <<costVars, permVars, hookVars, storeVars, taskObjects>>

----------------------------------------------------------------------------
(* Inputs of the tool-gating specification: while a task executes, the     *)
(* engine asks the canUseTool function it was given about a tool           *)
(* operation.  executeTask hands over the function getPermissionHandler    *)
(* returns, as it is; the third argument of a call is the engine's own     *)
(* options object.                                                         *)

\* what the engine passes as options: its abort signal
EngineOptions == [signal |-> "AbortSignal"]

ToolAttempts ==
  { [toolName |-> Bash, input |-> [command |-> <<"m", "a", "k", "e", " ",
      "t", "e", "s", "t">>]],
    [toolName |-> Bash, input |-> [command |-> <<"l", "s", " ", "-", "l",
        "a">>]],
    [toolName |-> Read, input |-> [file_path |-> <<"/", "w", "o", "r",
        "k", "s", "p", "a", "c", "e", "/", "a">>]],
    [toolName |-> WebFetch, input |-> [url |-> <<"h", "t", "t", "p", ":",
        "/", "/", "x">>]] }

\* the engine running the task of execution e calls
\* canUseTool(toolName, input, options)
EngineAttemptsTool(e, attempt) ==
  /\ Running(e)
  /\ Len(auditLog) < MaxAudit
  /\ Handle([toolName |-> attempt.toolName, input |-> attempt.input,
             options |-> EngineOptions],
            Len(auditLog) + 1)
  /\ teamCall' = [op |-> "canUseTool", exec |-> e]
  /\ UNCHANGED <<activeSessions, session, execs, batches, endCalls, reports,
                 ended>>
  /\ UNCHANGED <<costVars, hookVars, storeVars, taskObjects>>

----------------------------------------------------------------------------
(* Inputs of the shipped-configuration specification: the handler of a     *)
(* PermissionManager built from the shipped permissionRules, called for    *)
(* the team's custom MCP tools and a few built-in ones                     *)

\* permissionRules of createTeamConfiguration
ShippedRules ==
  [allow |-> <<
    <<"R", "e", "a", "d", "(", "*", ")">>, 
    <<"G", "r", "e", "p", "(", "*", ")">>, 
    <<"G", "l", "o", "b", "(", "*", ")">>, 
    <<"T", "o", "d", "o", "W", "r", "i", "t", "e", "(", "*", ")">>, 
    <<"W", "r", "i", "t", "e", "(", ".", "/", "w", "o", "r", "k", "s",
        "p", "a", "c", "e", "/", "*", "*", ")">>, 
    <<"E", "d", "i", "t", "(", ".", "/", "w", "o", "r", "k", "s", "p",
        "a", "c", "e", "/", "*", "*", ")">>, 
    <<"M", "u", "l", "t", "i", "E", "d", "i", "t", "(", ".", "/", "w",
        "o", "r", "k", "s", "p", "a", "c", "e", "/", "*", "*", ")">>, 
    <<"B", "a", "s", "h", "(", "l", "s", ":", "*", ")">>, 
    <<"B", "a", "s", "h", "(", "p", "w", "d", ")">>, 
    <<"B", "a", "s", "h", "(", "e", "c", "h", "o", ":", "*", ")">>, 
    <<"B", "a", "s", "h", "(", "c", "a", "t", ":", "*", ")">>, 
    <<"B", "a", "s", "h", "(", "h", "e", "a", "d", ":", "*", ")">>, 
    <<"B", "a", "s", "h", "(", "t", "a", "i", "l", ":", "*", ")">>, 
    <<"B", "a", "s", "h", "(", "g", "r", "e", "p", ":", "*", ")">>, 
    <<"B", "a", "s", "h", "(", "f", "i", "n", "d", ":", "*", ")">>, 
    <<"B", "a", "s", "h", "(", "g", "i", "t", " ", "s", "t", "a", "t",
        "u", "s", ")">>, 
    <<"B", "a", "s", "h", "(", "g", "i", "t", " ", "d", "i", "f", "f",
        ":", "*", ")">>, 
    <<"B", "a", "s", "h", "(", "g", "i", "t", " ", "l", "o", "g", ":",
        "*", ")">>, 
    <<"B", "a", "s", "h", "(", "g", "i", "t", " ", "b", "r", "a", "n",
        "c", "h", ":", "*", ")">>, 
    <<"B", "a", "s", "h", "(", "g", "i", "t", " ", "c", "h", "e", "c",
        "k", "o", "u", "t", ":", "*", ")">>, 
    <<"B", "a", "s", "h", "(", "g", "i", "t", " ", "a", "d", "d", ":",
        "*", ")">>, 
    <<"B", "a", "s", "h", "(", "g", "i", "t", " ", "c", "o", "m", "m",
        "i", "t", ":", "*", ")">>, 
    <<"B", "a", "s", "h", "(", "n", "p", "m", " ", "i", "n", "s", "t",
        "a", "l", "l", ":", "*", ")">>, 
    <<"B", "a", "s", "h", "(", "n", "p", "m", " ", "r", "u", "n", ":",
        "*", ")">>, 
    <<"B", "a", "s", "h", "(", "n", "p", "m", " ", "t", "e", "s", "t",
        ":", "*", ")">>, 
    <<"B", "a", "s", "h", "(", "n", "p", "m", " ", "b", "u", "i", "l",
        "d", ":", "*", ")">>, 
    <<"m", "c", "p", "_", "_", "d", "e", "v", "-", "w", "o", "r", "k",
        "f", "l", "o", "w", "_", "_", "*">>, 
    <<"m", "c", "p", "_", "_", "a", "p", "i", "-", "i", "n", "t", "e",
        "g", "r", "a", "t", "i", "o", "n", "s", "_", "_", "*">>, 
    <<"m", "c", "p", "_", "_", "d", "a", "t", "a", "b", "a", "s", "e",
        "-", "t", "o", "o", "l", "s", "_", "_", "*">>, 
    <<"m", "c", "p", "_", "_", "m", "o", "n", "i", "t", "o", "r", "i",
        "n", "g", "_", "_", "*">>, 
    <<"m", "c", "p", "_", "_", "t", "e", "a", "m", "-", "c", "o", "o",
        "r", "d", "i", "n", "a", "t", "i", "o", "n", "_", "_", "*">> >>,
   deny |-> <<
    <<"W", "r", "i", "t", "e", "(", ".", "e", "n", "v", ")">>, 
    <<"W", "r", "i", "t", "e", "(", ".", "/", "s", "e", "c", "r", "e",
        "t", "s", "/", "*", "*", ")">>, 
    <<"E", "d", "i", "t", "(", ".", "e", "n", "v", ")">>, 
    <<"E", "d", "i", "t", "(", ".", "/", "s", "e", "c", "r", "e", "t",
        "s", "/", "*", "*", ")">>, 
    <<"B", "a", "s", "h", "(", "r", "m", " ", "-", "r", "f", " ", "/", ")">>, 
    <<"B", "a", "s", "h", "(", "s", "u", "d", "o", ":", "*", ")">>, 
    <<"B", "a", "s", "h", "(", "c", "u", "r", "l", ":", "*", "|", "s",
        "h", ")">>, 
    <<"B", "a", "s", "h", "(", "w", "g", "e", "t", ":", "*", "|", "s",
        "h", ")">>, 
    <<"B", "a", "s", "h", "(", "d", "d", ":", "*", ")">>, 
    <<"R", "e", "a", "d", "(", "/", "e", "t", "c", "/", "*", "*", ")">>, 
    <<"R", "e", "a", "d", "(", "/", "v", "a", "r", "/", "*", "*", ")">>, 
    <<"R", "e", "a", "d", "(", "/", "u", "s", "r", "/", "*", "*", ")">>, 
    <<"W", "r", "i", "t", "e", "(", "/", "e", "t", "c", "/", "*", "*", ")">>, 
    <<"W", "r", "i", "t", "e", "(", "/", "v", "a", "r", "/", "*", "*", ")">>, 
    <<"W", "r", "i", "t", "e", "(", "/", "u", "s", "r", "/", "*", "*",
        ")">> >>,
   ask |-> <<
    <<"m", "c", "p", "_", "_", "d", "e", "v", "-", "w", "o", "r", "k",
        "f", "l", "o", "w", "_", "_", "d", "e", "p", "l", "o", "y", "_",
            "a", "p", "p", "l", "i", "c", "a", "t", "i", "o", "n", "(",
                "e", "n", "v", "i", "r", "o", "n", "m", "e", "n", "t",
                    ":", "p", "r", "o", "d", "u", "c", "t", "i", "o", "n",
                        ")">>, 
    <<"m", "c", "p", "_", "_", "d", "a", "t", "a", "b", "a", "s", "e",
        "-", "t", "o", "o", "l", "s", "_", "_", "q", "u", "e", "r", "y",
            "_", "d", "a", "t", "a", "b", "a", "s", "e", "(", "r", "e",
                "a", "d", "o", "n", "l", "y", ":", "f", "a", "l", "s",
                    "e", ")">>, 
    <<"m", "c", "p", "_", "_", "d", "a", "t", "a", "b", "a", "s", "e",
        "-", "t", "o", "o", "l", "s", "_", "_", "m", "i", "g", "r", "a",
            "t", "e", "_", "d", "a", "t", "a", "b", "a", "s", "e", "(",
                "d", "r", "y", "R", "u", "n", ":", "f", "a", "l", "s",
                    "e", ")">>, 
    <<"B", "a", "s", "h", "(", "g", "i", "t", " ", "p", "u", "s", "h",
        ":", "*", ")">>, 
    <<"B", "a", "s", "h", "(", "c", "h", "m", "o", "d", ":", "*", ")">>, 
    <<"B", "a", "s", "h", "(", "c", "h", "o", "w", "n", ":", "*", ")">> >>]

ShippedRequests ==
  { [toolName |-> <<"m", "c", "p", "_", "_", "d", "e", "v", "-", "w", "o",
      "r", "k", "f", "l", "o", "w", "_", "_", "r", "u", "n", "_", "t",
          "e", "s", "t", "s">>,
     input |-> [suite |-> <<"u", "n", "i", "t">>], options |-> << >>],
    [toolName |-> <<"m", "c", "p", "_", "_", "t", "e", "a", "m", "-", "c",
        "o", "o", "r", "d", "i", "n", "a", "t", "i", "o", "n", "_", "_",
            "a", "s", "s", "i", "g", "n", "_", "t", "a", "s", "k">>,
     input |-> [member |-> <<"q",
         "a">>], options |-> [priority |-> "critical"]],
    [toolName |-> <<"m", "c", "p", "_", "_", "d", "e", "v", "-", "w", "o",
        "r", "k", "f", "l", "o", "w", "_", "_", "d", "e", "p", "l", "o",
            "y", "_", "a", "p", "p", "l", "i", "c", "a", "t", "i", "o", "n">>,
     input |-> [environment |-> <<"p", "r", "o", "d", "u", "c", "t", "i",
         "o", "n">>], options |-> << >>],
    [toolName |-> <<"m", "c", "p", "_", "_", "d", "e", "v", "-", "w", "o",
        "r", "k", "f", "l", "o", "w", "_", "_", "*">>,
     input |-> [suite |-> <<"u", "n", "i", "t">>], options |-> << >>],
    [toolName |-> Read, input |-> [file_path |-> <<"/", "e", "t", "c",
        "/", "p", "a", "s", "s", "w", "d">>],
     options |-> << >>],
    [toolName |-> Bash, input |-> [command |-> <<"g", "i", "t", " ", "s",
        "t", "a", "t", "u", "s">>],
     options |-> << >>] }

\* new PermissionManager(config.permissionRules) of the shipped team
PermissionManagerShipped ==
  /\ rules = ShippedRules
  /\ auditLog = <<>>
  /\ permCall = [op |-> "none", seq |-> 0]

----------------------------------------------------------------------------
(* Inputs of the assignment specification.  The caller holds TaskRequest   *)
(* objects and passes them to assignTask and executeParallelTasks, which   *)
(* write their assignedTo field.  An object's assignedTo is <<>> while it  *)
(* is undefined; writes lists the values written to it, each with whether  *)
(* an execution of the object had begun by then; execs lists the           *)
(* executions started with it.                                             *)

\* the caller's objects: a new task, and one that names its member already
CallerObjects ==
  << [type |-> <<"i", "m", "p", "l", "e", "m", "e", "n", "t", "a", "t",
      "i", "o", "n">>, priority |-> "medium", assignedTo |-> <<>>,
      writes |-> <<>>, execs |-> <<>>],
     [type |-> <<"t", "e", "s", "t", "i", "n", "g">>, priority |-> "critical",
      assignedTo |-> <<"security-specialist">>, writes |-> <<>>,
      execs |-> <<>>] >>

\* the lists of one or two objects, by index
ObjectLists ==
  { <<o>> : o \in 1..Len(CallerObjects) }
    \cup { <<o1, o2>> : o1 \in 1..Len(CallerObjects),
                        o2 \in 1..Len(CallerObjects) }

\* the task as selectTeamMember and executeTask read it
RequestOf(object) == [type |-> object.type, priority |-> object.priority]

\* task.assignedTo = member.id, for the execution about to start
WriteAssignedTo(object, memberId, exec) ==
  [object EXCEPT
     !.assignedTo = <<memberId>>,
     !.writes = Append(@, [value |-> memberId, began |-> object.execs /= <<>>]),
     !.execs = Append(@, exec)]

\* the objects after the tasks of the list were assigned one after the
\* other, the i-th starting execution first + i
RECURSIVE WriteAll(_, _, _, _)
WriteAll(objects, list, i, first) ==
  IF i > Len(list) THEN objects
  ELSE WriteAll(
         [objects EXCEPT
            ![list[i]] =
               WriteAssignedTo(@, selectTeamMember(members, RequestOf(@)).id,
                               first + i)],
         list, i + 1, first)

\* new TeamManager(config), the caller holding the objects
TeamManagerWithCaller(objects) ==
  /\ activeSessions = {}
  /\ session = <<>>
  /\ execs = <<>>
  /\ batches = <<>>
  /\ endCalls = <<>>
  /\ reports = <<>>
  /\ ended = {}
  /\ teamCall = [op |-> "none"]
  /\ taskObjects = objects

\* assignTask(sessionId, task) with the caller's object o as task
SubmitTask(sessionId, o) ==
  /\ assignTask(sessionId, RequestOf(taskObjects[o]))
  /\ taskObjects' =
       IF SessionMissing(activeSessions, sessionId) THEN taskObjects
       ELSE WriteAll(taskObjects, <<o>>, 1, Len(execs))

\* executeParallelTasks(sessionId, tasks) with the caller's objects of the
\* list as tasks
SubmitParallelTasks(sessionId, list) ==
  /\ executeParallelTasks(sessionId,
                          [i \in 1..Len(list) |->
                             RequestOf(taskObjects[list[i]])])
  /\ taskObjects' =
       IF SessionMissing(activeSessions, sessionId) THEN taskObjects
       ELSE WriteAll(taskObjects, list, 1, Len(execs))

----------------------------------------------------------------------------
(* Inputs of the file-rule specification: matchesRule applied to one rule  *)
(* of a path-carrying tool and one file path                               *)

PathTools == {Read, Write, Edit, MultiEdit}

PathPatterns ==
  { <<"*", ".", "t", "s">>, <<".", "e", "n", "v">>, <<"s", "r", "c", "/",
      "*">>, <<"?", ".", "t", "s">>, <<"a", ".", "t", "s">>, <<"*">>,
    <<".", "/", "s", "e", "c", "r", "e", "t", "s", "/", "*">> }

FilePaths ==
  { <<"a", ".", "t", "s">>, <<".", "e", "n", "v">>, <<"x", "e", "n",
      "v">>, <<"a", ".", "t", "s", "x">>, <<"s", "r", "c", "/", "a", ".",
          "t", "s">>, <<"l", "i", "b", "/", "s", "r", "c", "/", "a">>,
    <<"a", "b", ".", "t", "s">>, <<".", "e", "n", "v", ".", "l", "o", "c",
        "a", "l">>, <<"a", "x", "t", "s">>, <<".", "/", "s", "e", "c",
            "r", "e", "t", "s", "/", "k", "e", "y">>, <<>> }

\* the rule string Tool(pattern)
RuleFor(toolName, pattern) == toolName \o <<"(">> \o pattern \o <<")">>

\* this.matchesRule(`${toolName}(${pattern})`, toolName, { file_path })
ApplyFileRule(toolName, pattern, filePath) ==
  /\ permCall' = [op |-> "matchesRule", tool |-> toolName,
                  pattern |-> pattern, path |-> filePath,
                  outcome |-> matchesRule(RuleFor(toolName, pattern),
                                          toolName,
                                          [file_path |-> filePath])]
  /\ UNCHANGED <<rules, auditLog>>
  /\ UNCHANGED <<costVars, teamVars, hookVars, storeVars>>

----------------------------------------------------------------------------
(* Bound of the end-of-session specification                               *)

MaxOverlappingEnds == 2

\* endSession(sessionId), possibly while another endSession call has not
\* returned
EndSessionAgain(sessionId) == endSession(sessionId, MaxOverlappingEnds)

----------------------------------------------------------------------------
(* Bound of the two-session specification                                  *)

MaxConcurrentSessions == 2

\* startTeamSession(sessionName), possibly while another session is live
StartAnotherSession == startTeamSession(MaxConcurrentSessions)

----------------------------------------------------------------------------
(* Inputs of the dangerous-rule specification: the rule Bash(dangerous)    *)
(* applied to commands made of a leading text, a core and a trailing text  *)

DangerousRule == <<"B", "a", "s", "h", "(", "d", "a", "n", "g", "e", "r",
    "o", "u", "s", ")">>

LeadingTexts == { <<>>, <<"c", "d", " ", "/", "t", "m", "p", " ", "&",
    "&", " ">>, <<"e", "c", "h", "o", " ", "x", ";", " ">>, <<"t", "r",
        "u", "e", ";">> }

TrailingTexts == { <<>>, <<" ", "#", " ", "d", "o", "n", "e">> }

\* recursive deletion from the root
RootDeletions == { <<"r", "m", " ", "-", "r", "f", " ", "/">>, <<"r", "m",
    " ", " ", "-", "r", "f", " ", " ", "/">> }

\* a downloaded script piped into a shell, the fork bomb, a raw
\* block-device write, privilege-escalated deletion
OtherSignatures ==
  { <<"c", "u", "r", "l", " ", "h", "t", "t", "p", ":", "/", "/", "x",
      " ", "|", " ", "s", "h">>, <<"w", "g", "e", "t", " ", "x", " ", "|",
          "s", "h">>, <<":", "(", ")", "{", " ", ":", "|", ":", "&", " ",
              "}", ";", ":">>,
    <<"d", "d", " ", "i", "f", "=", "/", "d", "e", "v", "/", "z", "e",
        "r", "o", " ", "o", "f", "=", "/", "d", "e", "v", "/", "s", "d",
            "a">>, <<"s", "u", "d", "o", " ", "r", "m", " ", "x">> }

HarmlessCores ==
  { <<"l", "s", " ", "-", "l", "a">>, <<"g", "i", "t", " ", "s", "t", "a",
      "t", "u", "s">>, <<"d", "a", "n", "g", "e", "r", "o", "u",
          "s">>, <<"r", "m", " ", "-", "r", "f", " ", "b", "u", "i", "l",
              "d">>,
    <<"c", "u", "r", "l", " ", "h", "t", "t", "p", ":", "/", "/",
        "x">>, <<"e", "c", "h", "o", " ", "d", "d">> }

CommandCores == RootDeletions \cup OtherSignatures \cup HarmlessCores

\* this.matchesRule("Bash(dangerous)", "Bash", { command }) for the command
\* leading + core + trailing
ApplyDangerousRule(leading, core, trailing) ==
  /\ permCall' = [op |-> "matchesRule", rule |-> DangerousRule,
                  leading |-> leading, core |-> core,
                  command |-> leading \o core \o trailing,
                  outcome |-> matchesRule(DangerousRule, Bash,
                                          [command |->
                                             leading \o core \o trailing])]
  /\ UNCHANGED <<rules, auditLog>>
  /\ UNCHANGED <<costVars, teamVars, hookVars, storeVars>>

----------------------------------------------------------------------------
(* Bounds and inputs of the SessionManager specification                   *)

MaxMetadataCalls == 2

StoredIds == {"session_a", "session_b"}

Instants == {1, 2}

\* the metadata a caller may save
Metadata ==
  { [id |-> id, status |-> status, updatedAt |-> Date(t)] :
      id \in StoredIds, status \in {"active", "interrupted"},
      t \in Instants }

\* what sessions.json may hold when the SessionManager is constructed
StoredFiles ==
  { [exists |-> FALSE],
    [exists |-> TRUE,
     sessions |-> << [id |-> "session_a", status |-> "active",
                      updatedAt |-> [iso |-> 0]] >>],
    [exists |-> TRUE,
     sessions |-> << [id |-> "session_a", status |-> "completed",
                      updatedAt |-> [iso |-> 0]],
                     [id |-> "session_b", status |-> "interrupted",
                      updatedAt |-> [iso |-> 0]] >>] }

\* new SessionManager() over an earlier run's file
SessionManagerOver(file) ==
  /\ sessionsFile = file
  /\ metadataCalls = <<>>

StoreFrame == UNCHANGED <<costVars, permVars, teamVars, hookVars>>

\* saveSessionMetadata(metadata) up to "await this.fileExists"
SaveSessionMetadata(metadata) ==
  /\ Len(metadataCalls) < MaxMetadataCalls
  /\ metadataCalls' =
       Append(metadataCalls,
              [op |-> "saveSessionMetadata", pc |-> "checking",
               metadata |-> metadata, content |-> <<>>])
  /\ UNCHANGED sessionsFile
  /\ StoreFrame

\* resumeSession(sessionId) or completeSession(sessionId) up to the awaits
\* of getSessionMetadata
LookUpSession(op, sessionId) ==
  /\ Len(metadataCalls) < MaxMetadataCalls
  /\ metadataCalls' =
       Append(metadataCalls,
              [op |-> op, pc |-> "lookup",
               metadata |-> [id |-> sessionId, status |-> "none",
                             updatedAt |-> Date(0)],
               content |-> <<>>])
  /\ UNCHANGED sessionsFile
  /\ StoreFrame

ResumeSession(sessionId) == LookUpSession("resumeSession", sessionId)

CompleteSession(sessionId) == LookUpSession("completeSession", sessionId)

\* getSessionMetadata has read the file: the call returns null, or sets
\* status and updatedAt of the entry it found and calls saveSessionMetadata
SessionLookedUp(c, now) ==
  /\ c \in 1..Len(metadataCalls)
  /\ metadataCalls[c].pc = "lookup"
  /\ LET call == metadataCalls[c]
         found == IF sessionsFile.exists
                  THEN FindIndex(sessionsFile.sessions, call.metadata.id)
                  ELSE 0
     IN metadataCalls' =
          [metadataCalls EXCEPT
             ![c] =
                IF found = 0
                   \/ (call.op = "resumeSession"
                         /\ sessionsFile.sessions[found].status = "completed")
                THEN [call EXCEPT !.pc = "returned null"]
                ELSE [call EXCEPT
                        !.pc = "checking",
                        !.metadata =
                           [id |-> call.metadata.id,
                            status |-> IF call.op = "resumeSession"
                                       THEN "active" ELSE "completed",
                            updatedAt |-> Date(now)]]]
  /\ UNCHANGED sessionsFile
  /\ StoreFrame

\* the content the call writes, from the list it starts from
ContentFor(call, sessions) ==
  StringifySessions(UpdateOrAdd(sessions, call.metadata))

\* "await this.fileExists(metadataPath)" resolves; with no file the list
\* stays empty and the call goes on to write
FileChecked(c) ==
  /\ c \in 1..Len(metadataCalls)
  /\ metadataCalls[c].pc = "checking"
  /\ LET call == metadataCalls[c]
     IN metadataCalls' =
          [metadataCalls EXCEPT
             ![c] =
                IF sessionsFile.exists
                THEN [call EXCEPT !.pc = "reading"]
                ELSE [call EXCEPT !.pc = "writing",
                                  !.content = ContentFor(call, <<>>)]]
  /\ UNCHANGED sessionsFile
  /\ StoreFrame

\* "await this.readFile(metadataPath)" resolves: the list is parsed,
\* updated and serialised, and writeFile is called
FileRead(c) ==
  /\ c \in 1..Len(metadataCalls)
  /\ metadataCalls[c].pc = "reading"
  /\ LET call == metadataCalls[c]
     IN metadataCalls' =
          [metadataCalls EXCEPT
             ![c] = [call EXCEPT
                       !.pc = "writing",
                       !.content = ContentFor(call, sessionsFile.sessions)]]
  /\ UNCHANGED sessionsFile
  /\ StoreFrame

\* the write reaches the file and the call returns
FileWritten(c) ==
  /\ c \in 1..Len(metadataCalls)
  /\ metadataCalls[c].pc = "writing"
  /\ sessionsFile' = [exists |-> TRUE, sessions |-> metadataCalls[c].content]
  /\ metadataCalls' = [metadataCalls EXCEPT ![c].pc = "returned"]
  /\ StoreFrame

----------------------------------------------------------------------------
(* Specifications.  Each one runs one component from its constructor; the  *)
(* components it does not run stay as constructed.                         *)

NoRules == [deny |-> <<>>, allow |-> <<>>, ask |-> <<>>]

CostInit ==
  CostTrackerNew /\ PermissionManagerNew(NoRules) /\ TeamManagerNew
    /\ HookManagerNew(ShippedHooks) /\ SessionManagerNew

CostNext ==
  \/ \E message \in Messages : ProcessMessage(message)
  \/ Reset

SpecCost == CostInit /\ [][CostNext]_vars

PermInit ==
  /\ CostTrackerNew
  /\ \E policy \in Policies : PermissionManagerNew(policy)
  /\ TeamManagerNew
  /\ HookManagerNew(ShippedHooks) /\ SessionManagerNew

PermNext == \E req \in Requests : Evaluate(req)

SpecPerm == PermInit /\ [][PermNext]_vars

RuleInit ==
  CostTrackerNew /\ PermissionManagerNew(NoRules) /\ TeamManagerNew
    /\ HookManagerNew(ShippedHooks) /\ SessionManagerNew

RuleNext ==
  \E rule \in BashRules, command \in BashCommands :
    ApplyBashRule(rule, command)

SpecBashRule == RuleInit /\ [][RuleNext]_vars

FileRuleNext ==
  \E toolName \in PathTools, pattern \in PathPatterns,
     filePath \in FilePaths :
    ApplyFileRule(toolName, pattern, filePath)

SpecFileRule == RuleInit /\ [][FileRuleNext]_vars

DangerousNext ==
  \E leading \in LeadingTexts, core \in CommandCores,
     trailing \in TrailingTexts :
    ApplyDangerousRule(leading, core, trailing)

SpecDangerous == RuleInit /\ [][DangerousNext]_vars

StoreInit ==
  /\ CostTrackerNew /\ PermissionManagerNew(NoRules) /\ TeamManagerNew
  /\ HookManagerNew(ShippedHooks)
  /\ \E file \in StoredFiles : SessionManagerOver(file)

StoreNext ==
  \/ \E metadata \in Metadata : SaveSessionMetadata(metadata)
  \/ \E sessionId \in StoredIds : ResumeSession(sessionId)
  \/ \E sessionId \in StoredIds : CompleteSession(sessionId)
  \/ \E c \in 1..MaxMetadataCalls, now \in Instants : SessionLookedUp(c, now)
  \/ \E c \in 1..MaxMetadataCalls : FileChecked(c)
  \/ \E c \in 1..MaxMetadataCalls : FileRead(c)
  \/ \E c \in 1..MaxMetadataCalls : FileWritten(c)

SpecStore == StoreInit /\ [][StoreNext]_vars

AuditInit ==
  \E n \in EarlierCalls :
    CostTrackerNew /\ PermissionManagerUsed(n) /\ TeamManagerNew
      /\ HookManagerNew(ShippedHooks) /\ SessionManagerNew

AuditNext ==
  \E i \in 1..Len(AuditRequests) : HandleNext(AuditRequests[i])

SpecAudit == AuditInit /\ [][AuditNext]_vars

SelectInit ==
  \E roster \in Rosters :
    CostTrackerNew /\ PermissionManagerNew(NoRules)
      /\ TeamManagerConfigured(roster) /\ HookManagerNew(ShippedHooks) /\ SessionManagerNew

SelectNext ==
  \E task \in SelectTasks : ApplySelectTeamMember(task)

SpecSelect == SelectInit /\ [][SelectNext]_vars

HookInit ==
  CostTrackerNew /\ PermissionManagerNew(NoRules) /\ TeamManagerNew
    /\ HookManagerNew(ShippedHooks) /\ SessionManagerNew

HookNext ==
  \/ \E event \in CustomEvents, matcher \in Matchers,
        hookCallback \in CustomCallbacks :
       AddCustomHook(event, matcher, hookCallback)
  \/ \E event \in FiredEvents, g \in 1..MaxGroups, h \in 1..MaxGroupSize,
        memberId \in MemberIds, input \in HookInputs :
       RunHook(event, g, h, memberId, input)

SpecHook == HookInit /\ [][HookNext]_vars

GateInit ==
  /\ CostTrackerNew
  /\ \E policy \in GatePolicies : PermissionManagerNew(policy)
  /\ TeamManagerNew
  /\ HookManagerNew(ShippedHooks) /\ SessionManagerNew

GateNext ==
  \/ \E req \in GateRequests : Evaluate(req)
  \/ \E req \in GateRequests, memberId \in MemberIds :
       RunHook(PreToolUse, 1, 1, memberId, PreToolUseInput(req))

SpecGate == GateInit /\ [][GateNext]_vars

SessionInit ==
  CostTrackerNew /\ PermissionManagerNew(NoRules) /\ TeamManagerNew
    /\ HookManagerNew(ShippedHooks) /\ SessionManagerNew

SessionNext ==
  \/ \E now \in ClockValues, suffix \in RandomSuffixes :
       StartTeamSessionAt(now, suffix)
  \/ \E sessionId \in GeneratedIds, req \in TaskRequests :
       AssignTask(sessionId, req)
  \/ \E e \in 1..MaxTasks, usage \in ResultUsages, duration \in Durations :
       EngineYieldsSuccess(e, usage, duration)

SpecSession == SessionInit /\ [][SessionNext]_vars

TaskInit ==
  CostTrackerNew /\ PermissionManagerNew(NoRules) /\ TeamManagerNew
    /\ HookManagerNew(ShippedHooks) /\ SessionManagerNew

TaskNext ==
  \/ StartTeamSession
  \/ \E sessionId \in SessionIds, req \in TaskRequests :
       AssignTask(sessionId, req)
  \/ \E e \in 1..MaxTasks, attempt \in ToolAttempts :
       EngineAttemptsTool(e, attempt)
  \/ \E e \in 1..MaxTasks, usage \in ResultUsages, duration \in Durations :
       EngineYieldsSuccess(e, usage, duration)

SpecTask == TaskInit /\ [][TaskNext]_vars

ShippedInit ==
  CostTrackerNew /\ PermissionManagerShipped /\ TeamManagerNew
    /\ HookManagerNew(ShippedHooks) /\ SessionManagerNew

ShippedNext == \E req \in ShippedRequests : HandleNext(req)

SpecShipped == ShippedInit /\ [][ShippedNext]_vars

AssignInit ==
  CostTrackerNew /\ PermissionManagerNew(NoRules)
    /\ TeamManagerWithCaller(CallerObjects) /\ HookManagerNew(ShippedHooks) /\ SessionManagerNew

AssignNext ==
  \/ StartTeamSession
  \/ \E sessionId \in SessionIds, o \in 1..Len(CallerObjects) :
       SubmitTask(sessionId, o)
  \/ \E sessionId \in SessionIds, list \in ObjectLists :
       SubmitParallelTasks(sessionId, list)
  \/ \E e \in 1..MaxTasks, usage \in ResultUsages, duration \in Durations :
       EngineYieldsSuccess(e, usage, duration)
  \/ \E b \in 1..MaxTasks : ParallelReturns(b)

SpecAssign == AssignInit /\ [][AssignNext]_vars

TeamInit ==
  CostTrackerNew /\ PermissionManagerNew(NoRules) /\ TeamManagerNew
    /\ HookManagerNew(ShippedHooks) /\ SessionManagerNew

TeamNext ==
  \/ StartTeamSession
  \/ \E sessionId \in SessionIds, req \in TaskRequests :
       AssignTask(sessionId, req)
  \/ \E sessionId \in SessionIds, reqs \in RequestLists(MaxTasks) :
       ExecuteParallelTasks(sessionId, reqs)
  \/ \E e \in 1..MaxTasks : EngineYieldsFailure(e)
  \/ \E e \in 1..MaxTasks, usage \in ResultUsages, duration \in Durations :
       EngineYieldsSuccess(e, usage, duration)
  \/ \E e \in 1..MaxTasks, duration \in Durations : EngineEnds(e, duration)
  \/ \E e \in 1..MaxTasks, error \in EngineErrors : EngineThrows(e, error)
  \/ \E b \in 1..MaxTasks : ParallelReturns(b)
  \/ \E sessionId \in SessionIds : EndSession(sessionId)
  \/ \E c \in 1..MaxEnds : ReportWritten(c)
  \/ \E c \in 1..MaxEnds : ReportWriteFails(c)
  \/ \E c \in 1..MaxEnds : EndSessionReturns(c)

SpecTeam == TeamInit /\ [][TeamNext]_vars

\* two sessions side by side
PairNext ==
  \/ StartAnotherSession
  \/ \E sessionId \in 1..MaxConcurrentSessions, req \in TaskRequests :
       AssignTask(sessionId, req)
  \/ \E e \in 1..MaxTasks, usage \in ResultUsages, duration \in Durations :
       EngineYieldsSuccess(e, usage, duration)
  \/ \E e \in 1..MaxTasks, error \in EngineErrors : EngineThrows(e, error)
  \/ \E sessionId \in 1..MaxConcurrentSessions : EndSession(sessionId)
  \/ \E c \in 1..MaxEnds : ReportWritten(c)
  \/ \E c \in 1..MaxEnds : EndSessionReturns(c)

SpecPair == TeamInit /\ [][PairNext]_vars

\* endSession called up to MaxOverlappingEnds times, also while an earlier
\* call is still writing its report or after its write failed
EndNext ==
  \/ StartTeamSession
  \/ \E req \in TaskRequests : AssignTask(1, req)
  \/ \E e \in 1..MaxTasks, usage \in ResultUsages, duration \in Durations :
       EngineYieldsSuccess(e, usage, duration)
  \/ \E sessionId \in SessionIds : EndSessionAgain(sessionId)
  \/ \E c \in 1..MaxOverlappingEnds : ReportWritten(c)
  \/ \E c \in 1..MaxOverlappingEnds : ReportWriteFails(c)
  \/ \E c \in 1..MaxOverlappingEnds : EndSessionReturns(c)

SpecEnd == TeamInit /\ [][EndNext]_vars



(* The same program under the scheduling the runtime guarantees.  A        *)
(* resolved promise's continuation is run by the event loop, so the        *)
(* returns of executeParallelTasks and endSession happen once enabled, and *)
(* the report sink settles every write.  The engine is an external         *)
(* service: nothing obliges it to produce a next message, so its steps     *)
(* carry no fairness.  executeTask arms no timer (its only limit is        *)
(* maxTurns, which the engine enforces), so there is no timeout step.      *)
SpecTeamFair ==
  /\ TeamInit
  /\ [][TeamNext]_vars
  /\ WF_vars(\E b \in 1..MaxTasks : ParallelReturns(b))
  /\ WF_vars(\E c \in 1..MaxEnds : ReportWritten(c) \/ ReportWriteFails(c))
  /\ WF_vars(\E c \in 1..MaxEnds : EndSessionReturns(c))
----------------------------------------------------------------------------
(* C6: processMessage called with a message id that is already in the      *)
(* ledger returns null and leaves the ledger, getTotalCost() and           *)
(* getTotalUsage() as they were before the call; the ledger never holds    *)
(* two entries with the same message id, so each distinct id is charged    *)
(* at most once.                                                           *)

LedgerIds(steps) == {steps[i].messageId : i \in 1..Len(steps)}

C6_DuplicateIsNoOp ==
  /\ (/\ ctCall.op = "processMessage"
       /\ MessageId(ctCall.message) \in LedgerIds(ctCall.before))
      => (/\ ctCall.returned = "null"
          /\ stepUsages = ctCall.before
          /\ getTotalCost = FoldCost(ctCall.before, Len(ctCall.before))
          /\ getTotalUsage = FoldUsage(ctCall.before, Len(ctCall.before)))
  /\ \A i, j \in 1..Len(stepUsages) :
        stepUsages[i].messageId = stepUsages[j].messageId => i = j

\* a billable message is observed a second time after another message was
\* recorded in between, and is dropped
C6_Witness ==
  /\ ctCall.op = "processMessage"
  /\ ctCall.returned = "null"
  /\ ~NotBillable(ctCall.message)
  /\ Len(stepUsages) >= 2
  /\ stepUsages[1].messageId = MessageId(ctCall.message)

----------------------------------------------------------------------------
(* Claims about the permission handler.  They are stated over the last     *)
(* call, permCall, with the matching relation taken rule by rule.          *)

\* some rule of the bucket matches the request of the last call
BucketMatches(bucket) ==
  \E i \in 1..Len(bucket) :
    LET m == matchesRule(bucket[i], permCall.context.toolName,
                         permCall.context.input)
    IN ~m.threw /\ m.value

\* matching the request of the last call against the bucket raises an
\* exception before any of its rules has matched
BucketThrows(bucket) ==
  \E i \in 1..Len(bucket) :
    /\ matchesRule(bucket[i], permCall.context.toolName,
                   permCall.context.input).threw
    /\ \A j \in 1..(i - 1) :
         LET m == matchesRule(bucket[j], permCall.context.toolName,
                              permCall.context.input)
         IN ~m.threw /\ ~m.value

Called == permCall.op = "canUseTool"

(* C1: if at least one deny rule matches the request, the handler returns  *)
(* behavior 'deny', whatever the allow and ask rules and the priority are. *)
C1_DenyDominates ==
  (Called /\ BucketMatches(rules.deny)) => permCall.result.behavior = "deny"

\* a request at priority high that matches a deny rule and an allow rule
C1_Witness ==
  /\ Called
  /\ BucketMatches(rules.deny)
  /\ BucketMatches(rules.allow)
  /\ "priority" \in DOMAIN permCall.context
  /\ permCall.context.priority = "high"
  /\ permCall.result.behavior = "deny"

\* the evaluation of the last call raised an exception inside the try block
Raised ==
  \/ BucketThrows(rules.deny)
  \/ /\ ~BucketMatches(rules.deny)
     /\ \/ BucketThrows(rules.allow)
        \/ /\ ~BucketMatches(rules.allow)
           /\ \/ BucketThrows(rules.ask)
              \/ /\ ~BucketMatches(rules.ask)
                 /\ applyDefaultPolicy(permCall.context).threw

C9_WitnessNullInput ==
  /\ Called
  /\ Raised
  /\ IsNull(permCall.context.input)
  /\ permCall.result.behavior = "deny"

PlainAllow ==
  permCall.result
    = [behavior |-> "allow", updatedInput |-> permCall.context.input]

AskAllow ==
  /\ permCall.result.behavior = "allow"
  /\ \E i \in 1..Len(rules.ask) :
       permCall.result.message
         = <<"Tool approved (would normally ask): ", rules.ask[i]>>

DefaultApplied ==
  auditLog[Len(auditLog)].reason = <<"Applied default policy">>

(* C10 as stated: the first bucket, in the order deny, allow, ask, that    *)
(* holds a matching rule decides, and the default policy is consulted only *)
(* when no rule of any bucket matches.                                     *)
C10_AsStated ==
  Called =>
    /\ BucketMatches(rules.deny) => permCall.result.behavior = "deny"
    /\ (~BucketMatches(rules.deny) /\ BucketMatches(rules.allow))
         => PlainAllow
    /\ (/\ ~BucketMatches(rules.deny)
        /\ ~BucketMatches(rules.allow)
        /\ BucketMatches(rules.ask)) => AskAllow
    /\ DefaultApplied =>
         /\ ~BucketMatches(rules.deny)
         /\ ~BucketMatches(rules.allow)
         /\ ~BucketMatches(rules.ask)

(* C10, amended: the first bucket, in the order deny, allow, ask, that     *)
(* holds a matching rule decides unless matching a rule consulted before   *)
(* it raises an exception, in which case the evaluation is denied; a       *)
(* request matching an allow rule and an ask rule gets the plain allow     *)
(* with the original input and no message; the default policy is consulted *)
(* only when no rule of any bucket matches.                                *)
C10_Precedence ==
  Called =>
    /\ BucketMatches(rules.deny) => permCall.result.behavior = "deny"
    /\ (/\ ~BucketMatches(rules.deny) /\ ~BucketThrows(rules.deny)
        /\ BucketMatches(rules.allow)) => PlainAllow
    /\ (/\ ~BucketMatches(rules.deny) /\ ~BucketThrows(rules.deny)
        /\ ~BucketMatches(rules.allow) /\ ~BucketThrows(rules.allow)
        /\ BucketMatches(rules.ask)) => AskAllow
    /\ Raised => permCall.result.behavior = "deny"
    /\ DefaultApplied =>
         /\ ~BucketMatches(rules.deny)
         /\ ~BucketMatches(rules.allow)
         /\ ~BucketMatches(rules.ask)

\* a request that matches an allow rule and an ask rule and no deny rule
C10_Witness ==
  /\ Called
  /\ ~BucketMatches(rules.deny)
  /\ BucketMatches(rules.allow)
  /\ BucketMatches(rules.ask)
  /\ PlainAllow

----------------------------------------------------------------------------
(* Claims about TeamManager                                                *)

\* the executeTask invocations of a session that returned through the
\* success path (a success record was consumed, or the generator ended)
Completions(sid) ==
  { e \in 1..Len(execs) :
      /\ execs[e].sid = sid
      /\ execs[e].pc = "returned"
      /\ execs[e].engine \in {"success", "ended"} }

\* cost[1] + ... + cost[i] as JavaScript adds numbers
RECURSIVE SumOfCost(_, _)
SumOfCost(tasks, i) ==
  IF i = 0 THEN Num(0) ELSE Plus(SumOfCost(tasks, i - 1), tasks[i].cost)

\* (cost[1] || 0) + ... + (cost[i] || 0)
RECURSIVE SumOfCharged(_, _)
SumOfCharged(tasks, i) ==
  IF i = 0 THEN Num(0)
  ELSE Plus(SumOfCharged(tasks, i - 1), CostOrZero(tasks[i].cost))

RECURSIVE SumOfCounter(_, _, _)
SumOfCounter(tasks, i, f) ==
  IF i = 0 THEN 0
  ELSE SumOfCounter(tasks, i - 1, f) + CounterOrZero(tasks[i].usage, f)

UsageIsFold(s) ==
  \A f \in CounterNames :
    CounterOrZero(s.totalUsage, f)
      = SumOfCounter(s.completedTasks, Len(s.completedTasks), f)

(* C2: in every reachable state of a live session, totalCost equals the    *)
(* sum of cost over the entries of completedTasks and every counter of     *)
(* totalUsage equals the sum of that counter over the usage of those       *)
(* entries, whichever of the four counters a usage object carries.         *)
(* The program does not satisfy this: an entry whose usage lacks           *)
(* input_tokens or output_tokens has cost NaN, and totalCost receives 0    *)
(* for it.                                                                 *)
C2_TotalsAreSums ==
  \A sid \in activeSessions :
    /\ session[sid].totalCost
         = SumOfCost(session[sid].completedTasks,
                     Len(session[sid].completedTasks))
    /\ UsageIsFold(session[sid])

\* the part of C2 the program does satisfy: the counters of totalUsage
C2_UsageCountersAreSums ==
  \A sid \in activeSessions : UsageIsFold(session[sid])

(* C3: every task executed through assignTask or executeParallelTasks      *)
(* adds exactly one TaskResult to the session's completedTasks; a task     *)
(* whose engine raised an error is there too, with status "failed" and a   *)
(* result text carrying the error message, found by its taskId.            *)
(* The program does not satisfy this: the catch block returns the failed   *)
(* TaskResult without appending it.                                        *)
C3_EveryTaskIsRecorded ==
  \A e \in 1..Len(execs) :
    execs[e].pc = "returned"
      => LET done == session[execs[e].sid].completedTasks
         IN /\ Cardinality({ i \in 1..Len(done) :
                               done[i].taskId = execs[e].taskId }) = 1
            /\ \A i \in 1..Len(done) :
                 done[i].taskId = execs[e].taskId
                   => /\ done[i] = execs[e].result
                      /\ execs[e].engine = "threw"
                           => done[i].status = "failed"

(* C4: completions of concurrently running tasks of one session do not     *)
(* lose updates: in every reachable state completedTasks holds exactly one *)
(* entry per task that has completed, each entry is the TaskResult that    *)
(* task returned, and totalCost and totalUsage are the folds, as the       *)
(* program folds them, over all of these entries.                          *)
C4_AtomicCompletion ==
  \A sid \in 1..Len(session) :
    LET done == session[sid].completedTasks
    IN /\ Len(done) = Cardinality(Completions(sid))
       /\ \A e \in Completions(sid) :
            \E i \in 1..Len(done) : done[i] = execs[e].result
       /\ \A i, j \in 1..Len(done) :
            done[i].taskId = done[j].taskId => i = j
       /\ session[sid].totalCost = SumOfCharged(done, Len(done))
       /\ UsageIsFold(session[sid])

\* two tasks of one session ran at the same time and completed in the
\* order opposite to the one they were started in
C4_Witness ==
  \E sid \in 1..Len(session) :
    LET done == session[sid].completedTasks
    IN /\ Len(done) = 2
       /\ done[1].taskId = 2
       /\ done[2].taskId = 1
       /\ ~done[1].cost.nan
       /\ ~done[2].cost.nan

\* what the tasks of a session that returned "completed" were charged
RECURSIVE ChargedTo(_, _)
ChargedTo(sid, n) ==
  IF n = 0 THEN Num(0)
  ELSE IF /\ execs[n].sid = sid
          /\ execs[n].pc = "returned"
          /\ execs[n].result.status = "completed"
       THEN Plus(ChargedTo(sid, n - 1), CostOrZero(execs[n].result.cost))
       ELSE ChargedTo(sid, n - 1)

(* C5: a returned executeParallelTasks call has one result per input task, *)
(* the i-th being the result of the task started for the i-th input; a     *)
(* task whose engine raised an error has a "failed" result without usage   *)
(* and without cost at its position, the others have "completed" results,  *)
(* the batch returns nevertheless, and the session's totalCost is made up  *)
(* of the charges of the completed tasks only.                             *)
C5_ParallelResults ==
  /\ \A b \in 1..Len(batches) :
       batches[b].pc = "returned"
            => /\ Len(batches[b].results) = Len(batches[b].tasks)
               /\ \A i \in 1..Len(batches[b].tasks) :
                    LET e == batches[b].execs[i]
                        r == batches[b].results[i]
                    IN /\ execs[e].task.type = batches[b].tasks[i].type
                       /\ execs[e].task.priority = batches[b].tasks[i].priority
                       /\ r.taskId = execs[e].taskId
                       /\ r = execs[e].result
                       /\ execs[e].engine = "threw"
                            => /\ r.status = "failed"
                               /\ "usage" \notin DOMAIN r
                               /\ "cost" \notin DOMAIN r
                       /\ execs[e].engine /= "threw"
                            => r.status = "completed"
  /\ \A sid \in 1..Len(session) :
       session[sid].totalCost = ChargedTo(sid, Len(execs))

\* a batch of two returned: the engine of the first task threw, the second
\* task completed and its charge is the session's total
C5_Witness ==
  \E b \in 1..Len(batches) :
    /\ batches[b].pc = "returned"
    /\ Len(batches[b].results) = 2
    /\ batches[b].results[1].status = "failed"
    /\ batches[b].results[2].status = "completed"
    /\ ~batches[b].results[2].cost.nan
    /\ session[batches[b].sid].totalCost = batches[b].results[2].cost

\* a batch of two returned whose second task completed before its first
C5_WitnessOutOfOrder ==
  \E b \in 1..Len(batches) :
    /\ batches[b].pc = "returned"
    /\ Len(batches[b].results) = 2
    /\ Len(session[batches[b].sid].completedTasks) = 2
    /\ session[batches[b].sid].completedTasks[1].taskId
         = batches[b].results[2].taskId

C8_MissingSessionRejected ==
  [][ (/\ teamCall'.op \in {"assignTask", "executeParallelTasks",
                            "endSession"}
       /\ teamCall'.sid \notin activeSessions)
      => (/\ teamCall'.outcome = "rejected"
          /\ teamCall'.error = SessionNotFound(teamCall'.sid)
          /\ UNCHANGED <<activeSessions, session, execs, batches, endCalls,
                         reports, ended>>) ]_vars

\* endSession is called a second time for a session that has ended and
\* had run a task
C8_Witness ==
  /\ teamCall.op = "endSession"
  /\ teamCall.outcome = "rejected"
  /\ teamCall.sid \in ended
  /\ Len(session[teamCall.sid].completedTasks) > 0

\* executeParallelTasks is called with an identifier no session ever had,
\* while a session is live
C8_WitnessNeverCreated ==
  /\ teamCall.op = "executeParallelTasks"
  /\ teamCall.outcome = "rejected"
  /\ teamCall.sid = InvalidSession
  /\ activeSessions /= {}

----------------------------------------------------------------------------
\* the reason recorded for the decision of the last call
LastReason == auditLog[Len(auditLog)].reason

\* the last call was approved under the ask rule r and logged as such
ApprovedByAskRule(r) ==
  /\ permCall.outcome = "returned"
  /\ permCall.result
       = [behavior |-> "allow",
          message |-> <<"Tool approved (would normally ask): ", r>>]
  /\ LastReason = <<"Auto-approved ask rule: ", r>>
  /\ LastReason[1] /= "Allowed by rule: "
  /\ LastReason /= <<"Applied default policy">>

----------------------------------------------------------------------------
(* C12: executeTask stops at the first terminal result record, success or  *)
(* failure, and uses only that record: a task whose engine has yielded a   *)
(* failure-tagged terminal record returns a TaskResult with status         *)
(* "failed", and a TaskResult has status "completed" only if a             *)
(* success-tagged terminal record was the one consumed.                    *)
(* The program does not satisfy this: the loop leaves only on a success    *)
(* record, so after a failure record it goes on reading, and the task      *)
(* returns "completed" from a later success record or from the end of the  *)
(* stream.                                                                 *)
C12_StopsAtTerminalRecord ==
  [][ \A e \in 1..Len(execs) :
        (/\ execs[e].pc = "running"
         /\ execs[e].engine = "failureSeen"
         /\ execs'[e].pc = "returned")
          => execs'[e].result.status = "failed" ]_vars

\* the part of C12 the program does satisfy: a success record ends the
\* task at once with status "completed" and that record's result text
C12_SuccessRecordCompletes ==
  \A e \in 1..Len(execs) :
    (execs[e].pc = "returned" /\ execs[e].engine = "success")
      => /\ execs[e].result.status = "completed"
         /\ execs[e].result.result = <<"Task completed successfully">>

----------------------------------------------------------------------------
\* a usage object as UsageData types it: both token counters present
WellTyped(usage) ==
  "input_tokens" \in DOMAIN usage /\ "output_tokens" \in DOMAIN usage

\* the rate-weighted sum of the four counters, an absent cache counter
\* counting as zero, in 1e-10 USD
RateWeighted(usage) ==
  usage["input_tokens"] * input_tokens_per_1k
    + usage["output_tokens"] * output_tokens_per_1k
    + (IF "cache_creation_input_tokens" \in DOMAIN usage
       THEN usage["cache_creation_input_tokens"] * cache_creation_per_1k
       ELSE 0)
    + (IF "cache_read_input_tokens" \in DOMAIN usage
       THEN usage["cache_read_input_tokens"] * cache_read_per_1k
       ELSE 0)

\* the sum of RateWeighted over the entries of the ledger whose index is in
\* the set left, taken in no particular order
RECURSIVE SumOverEntries(_, _)
SumOverEntries(steps, left) ==
  IF left = {} THEN 0
  ELSE LET i == CHOOSE j \in left : TRUE
       IN RateWeighted(steps[i].usage) + SumOverEntries(steps, left \ {i})

(* C13: after N messages with pairwise distinct ids have been recorded,    *)
(* each with a usage carrying both token counters, getTotalCost() is the   *)
(* sum over the N usages of the rate-weighted sum of the four counters     *)
(* (absent cache counters counting as zero), whatever the counters and the *)
(* order of recording are.                                                 *)
C13_TotalCostIsSum ==
  (\A i \in 1..Len(stepUsages) : WellTyped(stepUsages[i].usage))
    => /\ \A i \in 1..Len(stepUsages) :
            stepUsages[i].costUSD = Num(RateWeighted(stepUsages[i].usage))
       /\ getTotalCost
            = Num(SumOverEntries(stepUsages, 1..Len(stepUsages)))

\* three messages with distinct ids were recorded, the last one without
\* cache counters and the first two with them
C13_Witness ==
  /\ Len(stepUsages) = 3
  /\ Cardinality(LedgerIds(stepUsages)) = 3
  /\ \A i \in 1..3 : WellTyped(stepUsages[i].usage)
  /\ "cache_read_input_tokens" \in DOMAIN stepUsages[1].usage
  /\ "cache_read_input_tokens" \notin DOMAIN stepUsages[3].usage
  /\ "cache_read_input_tokens" \in DOMAIN stepUsages[2].usage
  /\ getTotalCost = Num(2 * 684375 + 330000)

----------------------------------------------------------------------------
\* the last step applied a Bash rule with a non-empty pattern
RuleApplied ==
  /\ permCall.op = "matchesRule"
  /\ parseRule(permCall.rule).hasPattern
  /\ parseRule(permCall.rule).pattern /= <<>>

RulePattern == parseRule(permCall.rule).pattern

IsPrefixPattern == endsWith(RulePattern, <<":", "*">>)

\* the literal X of a pattern X:*
PrefixLiteral == SubSeq(RulePattern, 1, Len(RulePattern) - 2)

RuleMatched == ~permCall.outcome.threw /\ permCall.outcome.value

\* the command of the last step begins with the characters of x
CommandBeginsWith(x) ==
  /\ Len(x) <= Len(permCall.command)
  /\ \A i \in 1..Len(x) : permCall.command[i] = x[i]

(* C14 as stated: a Bash rule whose pattern is X:* matches a command iff   *)
(* the command starts with X, and a Bash rule without wildcard matches     *)
(* only a command equal to the whole pattern.                              *)
C14_AsStated ==
  RuleApplied =>
    IF IsPrefixPattern
    THEN RuleMatched <=> CommandBeginsWith(PrefixLiteral)
    ELSE RuleMatched => permCall.command = RulePattern

(* C14, amended: for a non-empty command, a Bash rule whose pattern is X:* *)
(* matches iff the command starts with X; a Bash rule whose pattern does   *)
(* not end in :* matches a command equal to the whole pattern and no       *)
(* other, except that the pattern "dangerous" also matches the commands    *)
(* that one of the built-in dangerous-command expressions matches.  An     *)
(* empty command matches no rule that has a pattern.                       *)
C14_PrefixOrExact ==
  RuleApplied =>
    /\ ~permCall.outcome.threw
    /\ IF permCall.command = <<>> THEN ~RuleMatched
       ELSE IF IsPrefixPattern
       THEN RuleMatched <=> CommandBeginsWith(PrefixLiteral)
       ELSE RuleMatched
              <=> \/ permCall.command = RulePattern
                  \/ /\ RulePattern = <<"d", "a", "n", "g", "e", "r", "o",
                      "u", "s">>
                     /\ \E k \in 1..Len(dangerousPatterns) :
                          RegexTest(dangerousPatterns[k], permCall.command)

\* the command holds the literal of the prefix rule, but not at its start
C14_Witness ==
  /\ RuleApplied
  /\ permCall.rule = <<"B", "a", "s", "h", "(", "g", "i", "t", " ", "p",
      "u", "s", "h", ":", "*", ")">>
  /\ permCall.command = <<"x", "g", "i", "t", " ", "p", "u", "s", "h">>
  /\ includes(permCall.command, PrefixLiteral)
  /\ ~RuleMatched

\* a prefix rule matches a command that starts with its literal
C14_WitnessPrefix ==
  /\ RuleApplied
  /\ permCall.rule = <<"B", "a", "s", "h", "(", "l", "s", ":", "*", ")">>
  /\ permCall.command = <<"l", "s", " ", "-", "l", "a", " ", "/", "h",
      "o", "m", "e">>
  /\ RuleMatched

----------------------------------------------------------------------------
\* the breakdown entry a report holds for the TaskResult t
BreakdownOf(t) ==
  [taskId |-> t.taskId, status |-> t.status, duration |-> t.duration,
   cost |-> IF t.cost.nan THEN "null" ELSE t.cost]

\* report was built from the session object s
ReportDescribes(report, s) ==
  /\ report.sessionId = s.id
  /\ report.totalCost = s.totalCost
  /\ report.usage = s.totalUsage
  /\ report.totalTasks = Len(s.completedTasks)
  /\ Len(report.taskBreakdown) = Len(s.completedTasks)
  /\ \A i \in 1..Len(s.completedTasks) :
       report.taskBreakdown[i] = BreakdownOf(s.completedTasks[i])

\* the reports the sink holds for session sid
ReportsFor(sid) ==
  { k \in 1..Len(reports) : reports[k].sessionId = sid }

(* C15: endSession writes the session report before it removes the        *)
(* session from the live table: a session leaves the table only in a step *)
(* that finds its report in the sink.  The report an endSession call      *)
(* hands to the sink holds the session identifier, the total cost, the    *)
(* aggregate usage, a totalTasks count equal to the number of entries of  *)
(* completedTasks, and one breakdown entry (taskId, status, duration,     *)
(* cost) per entry of completedTasks, in order; the sink stores it as it  *)
(* was handed over.                                                       *)
C15_ReportBeforeRemoval ==
  /\ [][ /\ \A sid \in activeSessions \ activeSessions' :
              ReportsFor(sid) /= {}
         /\ Len(endCalls') > Len(endCalls)
              => ReportDescribes(endCalls'[Len(endCalls')].report,
                                 session[endCalls'[Len(endCalls')].sid])
         /\ Len(reports') > Len(reports)
              => \E c \in 1..Len(endCalls) :
                   /\ endCalls[c].pc = "writing"
                   /\ reports' = Append(reports, endCalls[c].report) ]_vars
  /\ [](\A sid \in 1..Len(session) :
          sid \notin activeSessions => ReportsFor(sid) /= {})

\* a session that completed two tasks has ended, and its report lists both
C15_Witness ==
  \E sid \in 1..Len(session) :
    /\ sid \notin activeSessions
    /\ Len(session[sid].completedTasks) = 2
    /\ \E k \in ReportsFor(sid) :
         /\ reports[k].totalTasks = 2
         /\ ReportDescribes(reports[k], session[sid])

----------------------------------------------------------------------------
\* no rule of any bucket matches the request of the last call
NoRuleMatches ==
  /\ ~BucketMatches(rules.deny)
  /\ ~BucketMatches(rules.allow)
  /\ ~BucketMatches(rules.ask)

\* the request of the last call names a path inside the workspace: below
\* the workspace directory, without stepping out of it through ".."
TargetInsideWorkspace ==
  /\ ~IsNull(permCall.context.input)
  /\ "file_path" \in DOMAIN permCall.context.input
  /\ LET target == permCall.context.input.file_path
         below  == Append(workspace, "/")
     IN /\ Len(below) < Len(target)
        /\ SubSeq(target, 1, Len(below)) = below
        /\ ~includes(target, <<"/", ".", ".", "/">>)

ReadOnlyKinds == {Read, Grep, Glob, TodoWrite, ListMcpResources, ReadMcpResource}

MutatingKinds == {Write, Edit, MultiEdit}

(* C16: when no rule matches a request, the read-only kinds are allowed    *)
(* for every input and priority, the content-mutating kinds (Write, Edit,  *)
(* MultiEdit) are allowed iff the target path lies inside the workspace,   *)
(* whatever the priority, and every kind that is neither of these nor Bash *)
(* is denied.                                                              *)
(* The program does not satisfy this: it allows a mutating request whose   *)
(* path merely contains the text "/workspace/".                            *)
C16_DefaultPolicyByKind ==
  (Called /\ NoRuleMatches) =>
    /\ permCall.context.toolName \in ReadOnlyKinds
         => permCall.result.behavior = "allow"
    /\ permCall.context.toolName \in MutatingKinds
         => (permCall.result.behavior = "allow" <=> TargetInsideWorkspace)
    /\ permCall.context.toolName \notin
         (ReadOnlyKinds \cup MutatingKinds \cup {Bash})
         => permCall.result.behavior = "deny"

\* what the program does for the mutating kinds: the decision follows the
\* presence of the text "/workspace/" in the path
C16_MutatingFollowsSubstring ==
  (/\ Called /\ NoRuleMatches /\ ~Raised
   /\ permCall.context.toolName \in MutatingKinds)
    => (permCall.result.behavior = "allow"
          <=> /\ "file_path" \in DOMAIN permCall.context.input
              /\ includes(permCall.context.input.file_path,
                          <<"/", "w", "o", "r", "k", "s", "p", "a", "c",
                              "e", "/">>))

----------------------------------------------------------------------------
\* the command name of the Bash request of the last call: the text before
\* the first space, or none when the input has no command
CommandName ==
  IF IsNull(permCall.context.input)
       \/ "command" \notin DOMAIN permCall.context.input
  THEN <<>>
  ELSE LET command == permCall.context.input.command
           cut == IF \E i \in 1..Len(command) : command[i] = " "
                  THEN CHOOSE i \in 1..Len(command) :
                         /\ command[i] = " "
                         /\ \A j \in 1..(i - 1) : command[j] /= " "
                  ELSE Len(command) + 1
       IN <<SubSeq(command, 1, cut - 1)>>

SideEffectFree ==
  { <<"l", "s">>, <<"p", "w", "d">>, <<"e", "c", "h", "o">>, <<"c", "a",
      "t">>, <<"h", "e", "a", "d">>, <<"t", "a", "i", "l">>, <<"g", "r",
          "e", "p">>,
    <<"f", "i", "n", "d">> }

Escalated ==
  /\ "priority" \in DOMAIN permCall.context
  /\ permCall.context.priority \in {"high", "critical"}

BashAllowedByDefault ==
  \/ CommandName /= <<>> /\ CommandName[1] \in SideEffectFree
  \/ Escalated

(* C17 as stated: when no rule matches a Bash request it is allowed iff    *)
(* the command's name is one of ls, pwd, echo, cat, head, tail, grep, find *)
(* or the priority is high or critical, and denied in every other case.    *)
C17_AsStated ==
  (Called /\ NoRuleMatches /\ permCall.context.toolName = Bash)
    => (permCall.result.behavior = "allow" <=> BashAllowedByDefault)

(* C17, amended: the same for a Bash request whose input is an object      *)
(* (with or without a command); a Bash request whose input is null is      *)
(* denied at every priority.                                               *)
C17_BashDefault ==
  (Called /\ NoRuleMatches /\ permCall.context.toolName = Bash)
    => IF IsNull(permCall.context.input)
       THEN permCall.result.behavior = "deny"
       ELSE /\ permCall.result.behavior \in {"allow", "deny"}
            /\ permCall.result.behavior = "allow" <=> BashAllowedByDefault

\* "npm x" with no priority is denied under rules that do not match it
C17_Witness ==
  /\ Called
  /\ NoRuleMatches
  /\ rules.deny /= <<>>
  /\ permCall.context.toolName = Bash
  /\ CommandName = << <<"n", "p", "m">> >>
  /\ ~Escalated
  /\ permCall.result.behavior = "deny"

\* "npm x" at priority high is allowed
C17_WitnessEscalated ==
  /\ Called
  /\ NoRuleMatches
  /\ permCall.context.toolName = Bash
  /\ CommandName = << <<"n", "p", "m">> >>
  /\ Escalated
  /\ permCall.result.behavior = "allow"

\* "ls -la" with no priority is allowed
C17_WitnessSafeCommand ==
  /\ Called
  /\ NoRuleMatches
  /\ permCall.context.toolName = Bash
  /\ CommandName = << <<"l", "s">> >>
  /\ ~Escalated
  /\ permCall.result.behavior = "allow"

----------------------------------------------------------------------------
\* the deny rule that decided the last call, if one did: the first deny
\* rule that matches
DecidingDenyRule ==
  LET d == checkDenyRules(permCall.context.toolName, permCall.context.input)
  IN IF d.kind = "match" THEN <<d.rule>> ELSE <<>>

\* a rule that targets a destructive filesystem wipe, privilege escalation
\* or a write to a secret or credential path
TargetsCritical(rule) ==
  \/ includes(rule, <<"B", "a", "s", "h", "(", "r", "m", " ", "-", "r", "f">>)
  \/ includes(rule, <<"B", "a", "s", "h", "(", "d", "a", "n", "g", "e",
      "r", "o", "u", "s", ")">>)
  \/ includes(rule, <<"B", "a", "s", "h", "(", "s", "u", "d", "o">>)
  \/ includes(rule, <<"W", "r", "i", "t", "e", "(", ".", "e", "n", "v", ")">>)
  \/ includes(rule, <<"W", "r", "i", "t", "e", "(", ".", "/", "s", "e",
      "c", "r", "e", "t", "s", "/">>)
  \/ includes(rule, <<"E", "d", "i", "t", "(", ".", "e", "n", "v", ")">>)
  \/ includes(rule, <<"E", "d", "i", "t", "(", ".", "/", "s", "e", "c",
      "r", "e", "t", "s", "/">>)

Interrupts ==
  "interrupt" \in DOMAIN permCall.result /\ permCall.result.interrupt

\* C18: a decision carries interrupt = true iff it is a deny produced by a
\* matched deny rule that targets a destructive filesystem wipe, privilege
\* escalation (such as the sudo rule for Bash) or a write to a secret path
\* (.env or ./secrets/ through Write or Edit); no decision with behavior
\* "allow" carries interrupt = true.
\* The program does not satisfy this: its list of critical rules has no
\* privilege-escalation rule and no Edit rule.
C18_InterruptIffCritical ==
  Called =>
    /\ Interrupts
         <=> /\ permCall.result.behavior = "deny"
             /\ DecidingDenyRule /= <<>>
             /\ TargetsCritical(DecidingDenyRule[1])
    /\ permCall.result.behavior = "allow" => ~Interrupts

\* what the program does: interrupt = true exactly on a deny by a matched
\* deny rule that holds one of the four criticalPatterns, never on an allow
C18_InterruptOnListedRules ==
  Called =>
    /\ Interrupts
         <=> /\ permCall.result.behavior = "deny"
             /\ DecidingDenyRule /= <<>>
             /\ isCriticalRule(DecidingDenyRule[1])
    /\ permCall.result.behavior = "allow" => ~Interrupts

----------------------------------------------------------------------------
Selected == teamCall.op = "selectTeamMember"

\* text holds part from position i on, letter case ignored on the text side
HoldsAt(text, part, i, foldCase) ==
  /\ i + Len(part) - 1 <= Len(text)
  /\ \A k \in 1..Len(part) :
       \/ text[i + k - 1] = part[k]
       \/ /\ foldCase
          /\ \E c \in 1..Len(Capitals) :
               Capitals[c] = text[i + k - 1] /\ Alphabet[c] = part[k]

\* the member has the type among its specialization tags, or its role
\* string contains the type
Qualifies(member, type, foldCase) ==
  \/ type \in { member.specialization[k] :
                  k \in 1..Len(member.specialization) }
  \/ \E i \in 1..Len(member.role) :
       HoldsAt(member.role, type, i, foldCase)

IsGeneralist(member) == member.role = <<"f", "u", "l", "l", "-", "s", "t",
    "a", "c", "k", "-", "d", "e", "v", "e", "l", "o", "p", "e", "r">>

\* m is the first member of the roster r that satisfies P
FirstQualifying(r, m, foldCase) ==
  \E i \in 1..Len(r) :
    /\ r[i] = m
    /\ Qualifies(r[i], teamCall.task.type, foldCase)
    /\ \A j \in 1..(i - 1) : ~Qualifies(r[j], teamCall.task.type, foldCase)

FirstGeneralist(r, m) ==
  \E i \in 1..Len(r) :
    /\ r[i] = m
    /\ IsGeneralist(r[i])
    /\ \A j \in 1..(i - 1) : ~IsGeneralist(r[j])

SelectionRule(r, m, foldCase) ==
  /\ \E i \in 1..Len(r) : r[i] = m
  /\ IF \E i \in 1..Len(r) : Qualifies(r[i], teamCall.task.type, foldCase)
     THEN FirstQualifying(r, m, foldCase)
     ELSE IF \E i \in 1..Len(r) : IsGeneralist(r[i])
     THEN FirstGeneralist(r, m)
     ELSE m = r[1]

\* C19 as stated: for every roster, the selected member is the first whose
\* specialization tags or role string contain the task's type, else the
\* generalist, else the first member, and is always a member of the roster.
\* Violated: the role is compared after lower-casing it, and an empty roster
\* yields no member.
C19_AsStated ==
  Selected => SelectionRule(teamCall.roster, teamCall.member, FALSE)

\* C19: member selection is a function of the roster and the task's type
\* alone.  For a non-empty roster it returns the first member in roster
\* order that has the type among its specialization tags or whose
\* lower-cased role contains the type; when none qualifies, the first
\* member whose role is full-stack-developer if there is one, else the first
\* member; the result is a member of the roster.  For an empty roster it
\* returns undefined.  Two calls with the same roster and the same type
\* return the same member whatever the priority.
C19_Selection ==
  /\ [][(Selected /\ teamCall'.op = "selectTeamMember"
           /\ teamCall'.roster = teamCall.roster
           /\ teamCall'.task.type = teamCall.task.type)
          => teamCall'.member = teamCall.member]_vars
  /\ [](Selected =>
          IF teamCall.roster = <<>>
          THEN teamCall.member = undefined
          ELSE SelectionRule(teamCall.roster, teamCall.member, TRUE))

\* a roster of three where the first member does not qualify, the second
\* qualifies by its lower-cased role and the third is the generalist
C19_Witness ==
  /\ Selected
  /\ Len(teamCall.roster) = 3
  /\ teamCall.task.type = <<"d", "e", "p", "l", "o", "y", "m", "e", "n", "t">>
  /\ teamCall.roster[1].id = "senior-architect"
  /\ teamCall.roster[2].id = "release-lead"
  /\ teamCall.roster[3].id = "generalist"
  /\ teamCall.member.id = "release-lead"

\* nobody qualifies and the generalist, second in the roster, is selected
C19_WitnessGeneralist ==
  /\ Selected
  /\ teamCall.task.type = <<"i", "m", "p", "l", "e", "m", "e", "n", "t",
      "a", "t", "i", "o", "n">>
  /\ Len(teamCall.roster) = 2
  /\ teamCall.roster[1].id = "senior-architect"
  /\ teamCall.member.id = "generalist"

\* nobody qualifies, there is no generalist: the first member is selected;
\* the tag penetration-testing does not qualify for testing
C19_WitnessFirstMember ==
  /\ Selected
  /\ teamCall.task.type = <<"t", "e", "s", "t", "i", "n", "g">>
  /\ Len(teamCall.roster) = 2
  /\ teamCall.roster[1].id = "security-specialist"
  /\ teamCall.roster[2].id = "senior-architect"
  /\ teamCall.member.id = "security-specialist"

----------------------------------------------------------------------------
HasReturned(e) == e \in 1..Len(execs) /\ execs[e].pc = "returned"

\* C20: a task never blocks its caller indefinitely: also when the engine
\* yields no terminal record, every executeTask that has started returns a
\* TaskResult, so every assignTask and executeParallelTasks call returns.
\* The program does not satisfy this: executeTask has no timeout, and a
\* task whose engine stays silent, or goes on after a failure record,
\* waits for ever.
C20_EveryTaskReturns ==
  \A e \in 1..MaxTasks : Running(e) ~> HasReturned(e)

----------------------------------------------------------------------------
\* the task of execution e was cancelled: its engine raised the abort error
Cancelled(e) ==
  /\ e \in 1..Len(execs)
  /\ execs[e].pc = "returned"
  /\ execs[e].engine = "threw"
  /\ execs[e].result.result = <<"Task failed: ", AbortError>>

\* C21: a cancelled task is treated as failed and is still recorded: a
\* TaskResult with status "failed" and the cancellation as its reason,
\* carrying the task's id, is in the session's completedTasks.
\* The program does not satisfy this: the catch block of executeTask
\* returns the failed TaskResult without appending it.
C21_CancelledIsRecorded ==
  \A e \in 1..MaxTasks :
    Cancelled(e)
      => \E i \in 1..Len(session[execs[e].sid].completedTasks) :
           LET r == session[execs[e].sid].completedTasks[i]
           IN /\ r.taskId = execs[e].taskId
              /\ r.status = "failed"
              /\ r.result = <<"Task failed: ", AbortError>>

\* what the program does: the caller of a cancelled task gets a TaskResult
\* with status "failed" naming the abort, and the session's completedTasks
\* holds no entry for that task
C21_CancelledIsReturnedOnly ==
  \A e \in 1..MaxTasks :
    Cancelled(e)
      => /\ execs[e].result.status = "failed"
         /\ \A i \in 1..Len(session[execs[e].sid].completedTasks) :
              session[execs[e].sid].completedTasks[i].taskId
                /= execs[e].taskId

----------------------------------------------------------------------------
\* the ledger the last call found, with the call's own entry at its end
Pushed ==
  LET decision == evaluatePermission(permCall.context)
  IN Append(permCall.before,
            [context |-> permCall.context, result |-> permCall.result,
             reason |-> decision.reason])

\* the last n entries of the sequence s, in their order
MostRecent(s, n) == [i \in 1..n |-> s[Len(s) - n + i]]

\* C22: each call of the permission handler appends exactly one entry
\* (context, result, reason) to the audit ledger, after the entries of the
\* earlier calls; the ledger never holds more than 1000 entries, and when
\* the append takes it past 1000 the oldest entries are evicted and the
\* most recent 500 remain, in their original order.
C22_LedgerIsCapped ==
  /\ Len(auditLog) <= 1000
  /\ Called =>
       IF Len(permCall.before) + 1 > 1000
       THEN auditLog = MostRecent(Pushed, 500)
       ELSE auditLog = Pushed

\* the call that found 1000 entries: 500 remain, the call's own entry last
C22_Witness ==
  /\ Called
  /\ Len(permCall.before) = 1000
  /\ Len(auditLog) = 500
  /\ auditLog[500].context = permCall.context
  /\ auditLog[1] = permCall.before[502]

\* a call after an eviction appends to the 500 that remained
C22_WitnessAfterEviction ==
  /\ Called
  /\ permCall.seq = 3
  /\ Len(permCall.before) = 500
  /\ Len(auditLog) = 501

----------------------------------------------------------------------------
HookRan == hookCall.op = "hook"

LastExecution == executionHistory[Len(executionHistory)]

\* C23: a hook handler that throws never propagates its exception: the
\* wrapper built by getHooksForMember resolves to { continue: true } and
\* the execution is recorded with success = false; a handler that returns
\* normally has its own output passed through unchanged and is recorded
\* with success = true.  Either way the history grows by that one record.
C23_ThrowingHookIsNeutral ==
  HookRan =>
    /\ ~hookCall.done.threw
    /\ Len(executionHistory) = Len(hookCall.before) + 1
    /\ SubSeq(executionHistory, 1, Len(hookCall.before)) = hookCall.before
    /\ LastExecution.event = hookCall.event
    /\ LastExecution.memberId = hookCall.memberId
    /\ IF hookCall.handler.threw
       THEN /\ hookCall.done.output = [continue |-> TRUE]
            /\ LastExecution.success = FALSE
       ELSE /\ hookCall.done.output = hookCall.handler.value
            /\ LastExecution.success = TRUE
            /\ LastExecution.output = hookCall.handler.value

\* a custom callback registered for Bash threw
C23_Witness ==
  /\ HookRan
  /\ hookCall.name = "broken"
  /\ hookCall.handler.threw
  /\ hookCall.done.output = [continue |-> TRUE]
  /\ LastExecution.success = FALSE

\* the built-in security-audit threw on a null payload
C23_WitnessBuiltIn ==
  /\ HookRan
  /\ hookCall.name = "security-audit"
  /\ hookCall.input = NullInput
  /\ hookCall.handler.threw
  /\ LastExecution.success = FALSE

\* a custom callback's own output, a decision, came through
C23_WitnessPassThrough ==
  /\ HookRan
  /\ hookCall.name = "approve-all"
  /\ hookCall.done.output = [decision |-> "approve", systemMessage |-> "ok"]
  /\ LastExecution.success = TRUE

----------------------------------------------------------------------------
\* the security-audit hook ran on the PreToolUse payload of a Bash request
AuditedBash ==
  /\ HookRan
  /\ hookCall.event = PreToolUse
  /\ hookCall.name = "security-audit"
  /\ hookCall.input.tool_name = Bash

\* the commands of GateCommands that carry one of the hook's signatures:
\* a wipe outside the workspace, sudo with an argument, a download piped
\* to sh, dd with an input file
SignatureCommands ==
  { <<"s", "u", "d", "o", " ", "l", "s">>, <<"r", "m", " ", "-", "r", "f",
      " ", "/">>, <<"r", "m", " ", "-", "r", "f", " ", "/", "t", "m",
          "p">>, <<"c", "u", "r", "l", " ", "h", "t", "t", "p", ":", "/",
              "/", "x", " ", "|", " ", "s", "h">>,
    <<"c", "u", "r", "l", " ", "x", " ", "|", "s", "h">>, <<"d", "d", " ",
        "i", "f", "=", "/", "d", "e", "v", "/", "z", "e", "r", "o">> }

HookBlocks ==
  /\ "decision" \in DOMAIN hookCall.done.output
  /\ hookCall.done.output.decision = "block"
  /\ hookCall.done.output.hookSpecificOutput.permissionDecision = "deny"

\* the Policy Engine's last verdict was for the request the hook last saw
SameRequest ==
  /\ Called
  /\ permCall.context.toolName = hookCall.input.tool_name
  /\ permCall.context.input = hookCall.input.tool_input

\* C24: the pre-operation security hook and the Policy Engine are
\* independent gates: for a Bash command carrying one of the hook's
\* dangerous signatures the hook returns decision "block" with
\* permissionDecision "deny" whatever the Policy Engine's verdict for the
\* same request is, an allow through high or critical priority included;
\* for the other commands it returns { continue: true }.
C24_HookBlocksOnItsOwn ==
  AuditedBash =>
    IF hookCall.input.tool_input.command \in SignatureCommands
    THEN HookBlocks
    ELSE hookCall.done.output = [continue |-> TRUE]

\* the Policy Engine allowed "sudo ls" because of the priority, with no
\* rule matching, and the hook blocked the same request
C24_Witness ==
  /\ AuditedBash
  /\ SameRequest
  /\ rules = NoRules
  /\ hookCall.input.tool_input.command = <<"s", "u", "d", "o", " ", "l", "s">>
  /\ "priority" \in DOMAIN permCall.context
  /\ permCall.result.behavior = "allow"
  /\ HookBlocks

\* an allow rule for Bash allowed the download piped to sh; the hook
\* blocked it
C24_WitnessAllowRule ==
  /\ AuditedBash
  /\ SameRequest
  /\ rules.allow = << <<"B", "a", "s", "h">> >>
  /\ hookCall.input.tool_input.command = <<"c", "u", "r", "l", " ", "x",
      " ", "|", "s", "h">>
  /\ permCall.result.behavior = "allow"
  /\ HookBlocks

\* both gates let "ls -la" at high priority through
C24_WitnessNeitherBlocks ==
  /\ AuditedBash
  /\ SameRequest
  /\ hookCall.input.tool_input.command = <<"l", "s", " ", "-", "l", "a">>
  /\ permCall.result.behavior = "allow"
  /\ hookCall.done.output = [continue |-> TRUE]

----------------------------------------------------------------------------
\* the names of the callbacks getHooksForMember hands over for the event,
\* group after group
RECURSIVE HandedOver(_, _)
HandedOver(groups, g) ==
  IF g > Len(groups) THEN <<>>
  ELSE [h \in 1..Len(groups[g].hooks) |-> groups[g].hooks[h].hookCallback.name]
         \o HandedOver(groups, g + 1)

CallbacksFor(event, memberId) ==
  HandedOver(getHooksForMember(configuration, memberId)[event], 1)

\* C25: for each lifecycle event, the callbacks handed to the engine by
\* getHooksForMember appear in the order in which they were registered
\* (built-in hooks first, then addCustomHook calls in call order), also
\* when scoped and unscoped callbacks are registered alternately.
\* The program does not satisfy this: an unscoped callback registered
\* after a scoped one joins the built-in hook's group, ahead of the scoped
\* one.
C25_RegistrationOrder ==
  \A event \in DOMAIN configuration, memberId \in MemberIds :
    CallbacksFor(event, memberId) = registered[event]

\* what the program does: the callbacks are grouped by matcher, the groups
\* in the order of their first registration, and within a group the
\* callbacks in registration order; nothing is lost or duplicated
C25_GroupedByMatcher ==
  \A event \in DOMAIN configuration :
    LET groups == configuration[event]
        names(g) == [h \in 1..Len(groups[g].hooks) |-> groups[g].hooks[h].name]
        pos(n) == CHOOSE i \in 1..Len(registered[event]) :
                    registered[event][i] = n
    IN /\ \A g1, g2 \in 1..Len(groups) :
            g1 /= g2 => groups[g1].matcher /= groups[g2].matcher
       /\ \A g \in 1..Len(groups) :
            \A h1, h2 \in 1..Len(groups[g].hooks) :
              h1 < h2 => pos(names(g)[h1]) < pos(names(g)[h2])
       /\ \A g1, g2 \in 1..Len(groups) :
            g1 < g2 => pos(names(g1)[1]) < pos(names(g2)[1])
       /\ \A memberId \in MemberIds :
            /\ Len(CallbacksFor(event, memberId)) = Len(registered[event])
            /\ \A i \in 1..Len(registered[event]) :
                 \E k \in 1..Len(registered[event]) :
                   CallbacksFor(event, memberId)[k] = registered[event][i]

----------------------------------------------------------------------------
Started == teamCall.op = "startTeamSession"

EmptySession(s) ==
  /\ s.currentTasks = <<>>
  /\ s.completedTasks = <<>>
  /\ s.totalCost = Num(0)

\* C26: startTeamSession returns an identifier that differs from every
\* identifier in the live table and registers under it a session with
\* empty currentTasks, empty completedTasks and zero totalCost, leaving
\* every other live session unchanged, also when several sessions are
\* started in the same millisecond.
\* The program does not satisfy this: the identifier is the clock reading
\* and a random suffix, never compared with the table, and a repeated
\* identifier replaces the live session that has it.
C26_FreshIdentifier ==
  Started =>
    /\ teamCall.sid \notin teamCall.live
    /\ activeSessions = teamCall.live \cup {teamCall.sid}
    /\ EmptySession(session[teamCall.sid])
    /\ \A other \in teamCall.live :
         session[other] = teamCall.objects[other]

\* what the program does: the session registered under the returned
\* identifier is empty, the table gains that key at most, and every
\* session under another identifier is unchanged
C26_RegistersEmptySession ==
  Started =>
    /\ activeSessions = teamCall.live \cup {teamCall.sid}
    /\ session[teamCall.sid].id = teamCall.sid
    /\ EmptySession(session[teamCall.sid])
    /\ \A other \in teamCall.live \ {teamCall.sid} :
         session[other] = teamCall.objects[other]

\* a live session with a completed task was replaced by an empty one
C26_Replaced ==
  /\ Started
  /\ teamCall.sid \in teamCall.live
  /\ Len(teamCall.objects[teamCall.sid].completedTasks) = 1
  /\ session[teamCall.sid].completedTasks = <<>>

----------------------------------------------------------------------------
\* some report of session sid lists the task taskId
Reported(sid, taskId) ==
  \E k \in ReportsFor(sid) :
    \E i \in 1..Len(reports[k].taskBreakdown) :
      reports[k].taskBreakdown[i].taskId = taskId

\* C27: if endSession is called while a task of the session is still
\* executing, no result is lost: once the session's report has been
\* written, no completedTasks entry and no cost is added to the session,
\* and every TaskResult the session's tasks completed with is in its
\* report.
\* The program does not satisfy this: endSession does not wait for running
\* tasks, and a task that completes afterwards updates the session object
\* it still holds, after the report was written.
C27_NoResultLost ==
  /\ [][\A sid \in 1..Len(session) :
          ReportsFor(sid) /= {}
            => /\ session'[sid].completedTasks = session[sid].completedTasks
               /\ session'[sid].totalCost = session[sid].totalCost]_vars
  /\ [](\A e \in 1..Len(execs) :
          /\ execs[e].pc = "returned"
          /\ execs[e].result.status = "completed"
          /\ ReportsFor(execs[e].sid) /= {}
          => Reported(execs[e].sid, execs[e].taskId))

\* what the program does guarantee: a report lists exactly the results
\* that were in completedTasks when endSession was called
C27_ReportIsSnapshot ==
  [][Len(endCalls') > Len(endCalls)
       => LET call == endCalls'[Len(endCalls')]
          IN /\ Len(call.report.taskBreakdown)
                  = Len(session[call.sid].completedTasks)
             /\ \A i \in 1..Len(session[call.sid].completedTasks) :
                  call.report.taskBreakdown[i].taskId
                    = session[call.sid].completedTasks[i].taskId]_vars

----------------------------------------------------------------------------
\* the last step was a tool operation attempted for an executing task
Attempted == teamCall.op = "canUseTool" /\ Called

AttemptingTask == execs[teamCall.exec]

FieldIs(record, f, v) == f \in DOMAIN record /\ record[f] = v

\* C28: every tool operation the engine attempts while executing a task is
\* evaluated with a context bound to that task: it carries the task's
\* priority and the identifiers of the executing member and of the
\* session, so that, no rule matching, a Bash command outside the safe list
\* is allowed exactly for tasks whose priority is high or critical.
\* The program does not satisfy this: the handler given to the engine is
\* bound to nothing, and the context it builds takes priority, memberId
\* and sessionId from the engine's options, which have none of them.
C28_ContextBoundToTask ==
  Attempted =>
    /\ FieldIs(permCall.context, "priority", AttemptingTask.task.priority)
    /\ FieldIs(permCall.context, "memberId", AttemptingTask.task.assignedTo)
    /\ FieldIs(permCall.context, "sessionId", AttemptingTask.sid)
    /\ permCall.context.toolName = Bash
         /\ permCall.context.input.command = <<"m", "a", "k", "e", " ",
             "t", "e", "s", "t">>
       => (permCall.result.behavior = "allow"
             <=> AttemptingTask.task.priority \in {"high", "critical"})

\* what the program does: the context of an attempt carries the tool name
\* and the input only, and the verdict is the one of a request without
\* priority
C28_ContextIsUnbound ==
  Attempted =>
    /\ DOMAIN permCall.context = {"toolName", "input"}
    /\ permCall.context.toolName = Bash
         /\ permCall.context.input.command = <<"m", "a", "k", "e", " ",
             "t", "e", "s", "t">>
       => permCall.result.behavior = "deny"

\* a task of critical priority had its "make test" denied
C28_CriticalTaskDenied ==
  /\ Attempted
  /\ AttemptingTask.task.priority = "critical"
  /\ permCall.context.toolName = Bash
  /\ permCall.context.input.command = <<"m", "a", "k", "e", " ", "t", "e",
      "s", "t">>
  /\ permCall.result.behavior = "deny"

----------------------------------------------------------------------------
\* the tool is one of the team's custom MCP tools covered by a shipped
\* allow rule with a wildcard in the tool name
CustomMcpTool(toolName) ==
  \E prefix \in { <<"m", "c", "p", "_", "_", "d", "e", "v", "-", "w", "o",
      "r", "k", "f", "l", "o", "w", "_", "_">>, <<"m", "c", "p", "_", "_",
          "a", "p", "i", "-", "i", "n", "t", "e", "g", "r", "a", "t", "i",
              "o", "n", "s", "_", "_">>,
                  <<"m", "c", "p", "_", "_", "d", "a", "t", "a", "b", "a",
                      "s", "e", "-", "t", "o", "o", "l", "s", "_",
                          "_">>, <<"m", "c", "p", "_", "_", "m", "o", "n",
                              "i", "t", "o", "r", "i", "n", "g", "_", "_">>,
                  <<"m", "c", "p", "_", "_", "t", "e", "a", "m", "-", "c",
                      "o", "o", "r", "d", "i", "n", "a", "t", "i", "o",
                          "n", "_", "_">> } :
    /\ Len(toolName) > Len(prefix)
    /\ \A i \in 1..Len(prefix) : toolName[i] = prefix[i]

\* C29: a rule whose tool-name part ends in a wildcard, such as the
\* shipped allow rules mcp__dev-workflow__* and mcp__team-coordination__*,
\* matches every tool whose name starts with that prefix: under the
\* shipped configuration a request for a custom MCP tool that matches no
\* deny rule is allowed.
\* The program does not satisfy this: matchesRule compares the rule's tool
\* name with the tool's name for equality, "*" alone excepted.
C29_WildcardToolRules ==
  /\ Called
  /\ CustomMcpTool(permCall.context.toolName)
  /\ checkDenyRules(permCall.context.toolName, permCall.context.input).kind
       = "none"
  => permCall.result.behavior = "allow"

\* what the program does: of the requested custom MCP tools only the one
\* whose name is the rule's text, asterisk included, is allowed; the
\* others fall to the default policy, which denies them at every priority
C29_ToolNamesCompareEqual ==
  /\ Called
  /\ CustomMcpTool(permCall.context.toolName)
  => IF permCall.context.toolName = <<"m", "c", "p", "_", "_", "d", "e",
      "v", "-", "w", "o", "r", "k", "f", "l", "o", "w", "_", "_", "*">>
     THEN /\ permCall.result.behavior = "allow"
          /\ LastReason = <<"Allowed by rule: ", <<"m", "c", "p", "_",
              "_", "d", "e", "v", "-", "w", "o", "r", "k", "f", "l", "o",
                  "w", "_", "_", "*">>>>
     ELSE /\ permCall.result.behavior = "deny"
          /\ LastReason = <<"Applied default policy">>

\* the run_tests tool of dev-workflow was denied by the default policy
C29_McpToolDenied ==
  /\ Called
  /\ permCall.context.toolName = <<"m", "c", "p", "_", "_", "d", "e", "v",
      "-", "w", "o", "r", "k", "f", "l", "o", "w", "_", "_", "r", "u",
          "n", "_", "t", "e", "s", "t", "s">>
  /\ permCall.result.behavior = "deny"
  /\ permCall.result.message
       = <<"Tool ", <<"m", "c", "p", "_", "_", "d", "e", "v", "-", "w",
           "o", "r", "k", "f", "l", "o", "w", "_", "_", "r", "u", "n",
               "_", "t", "e", "s", "t", "s">>, " not in allowed list">>

----------------------------------------------------------------------------
\* the object came to the manager with its assignedTo already set
CameAssigned(o) == CallerObjects[o].assignedTo /= <<>>

\* C30: a task's assignedTo is written at most once over the task's
\* lifetime and only before its execution begins; submitting a task that
\* already carries an assignedTo, for instance one that was submitted
\* before, does not write the field again.
\* The program does not satisfy this: assignTask and executeParallelTasks
\* assign task.assignedTo on every submission, whatever the field holds.
C30_AssignedOnce ==
  \A o \in 1..Len(taskObjects) :
    /\ Len(taskObjects[o].writes) <= 1
    /\ \A w \in 1..Len(taskObjects[o].writes) : ~taskObjects[o].writes[w].began
    /\ CameAssigned(o) => taskObjects[o].writes = <<>>

\* what the program does: every accepted submission writes the field once,
\* with the identifier of the member selected for the task's type, before
\* the execution it starts
C30_WrittenOnEverySubmission ==
  \A o \in 1..Len(taskObjects) :
    LET object == taskObjects[o]
    IN /\ Len(object.writes) = Len(object.execs)
       /\ \A w \in 1..Len(object.writes) :
            /\ object.writes[w].value
                 = selectTeamMember(members, RequestOf(object)).id
            /\ execs[object.execs[w]].task.assignedTo = object.writes[w].value
            /\ object.writes[w].began <=> w > 1
       /\ object.writes /= <<>>
            => object.assignedTo = <<object.writes[Len(object.writes)].value>>

\* the task that named security-specialist was reassigned on submission
C30_Overwritten ==
  /\ taskObjects[2].writes /= <<>>
  /\ taskObjects[2].assignedTo /= <<"security-specialist">>

\* a task was submitted again after its first execution had returned, and
\* its assignedTo written a second time
C30_WrittenAgain ==
  /\ Len(taskObjects[1].writes) = 2
  /\ taskObjects[1].writes[2].began
  /\ execs[taskObjects[1].execs[1]].pc = "returned"

----------------------------------------------------------------------------
\* the list a begins the list b
BeginsList(a, b) ==
  /\ Len(a) <= Len(b)
  /\ \A i \in 1..Len(a) : a[i] = b[i]

\* the entries of the session's completedTasks the execution e contributed
EntriesOf(sid, e) ==
  { i \in 1..Len(session[sid].completedTasks) :
      session[sid].completedTasks[i].taskId = execs[e].taskId }

\* the number of engine invocations the step starts
EnginesStarted == Len(execs') - Len(execs)

\* the number of tasks the step accepts
TasksAccepted ==
  IF teamCall'.op = "assignTask" /\ teamCall'.outcome = "accepted" THEN 1
  ELSE IF teamCall'.op = "executeParallelTasks"
            /\ teamCall'.outcome = "accepted"
       THEN Len(batches'[Len(batches')].tasks)
       ELSE 0

\* C31: completedTasks is an append-only ledger: across every step the
\* previous list is a prefix of the new one (no entry is removed, reordered
\* or modified); the engine is invoked exactly once per submitted task,
\* never again for a task that failed, and each task contributes at most
\* one entry, to the session it was submitted to.
C31_AppendOnlyLedger ==
  /\ [][ /\ \A sid \in DOMAIN session :
               BeginsList(session[sid].completedTasks,
                          session'[sid].completedTasks)
         /\ EnginesStarted = TasksAccepted ]_vars
  /\ [](\A e \in 1..Len(execs) :
          /\ Cardinality(EntriesOf(execs[e].sid, e)) <= 1
          /\ \A sid \in DOMAIN session :
               sid /= execs[e].sid => EntriesOf(sid, e) = {})

\* two tasks of a session have completed, one after the other
C31_Witness ==
  \E sid \in DOMAIN session :
    /\ Len(session[sid].completedTasks) = 2
    /\ session[sid].completedTasks[1].taskId
         /= session[sid].completedTasks[2].taskId

\* a task failed and was not run again, alongside a completed one
C31_WitnessNoRetry ==
  \E e1 \in 1..Len(execs), e2 \in 1..Len(execs) :
    /\ execs[e1].pc = "returned" /\ execs[e1].engine = "threw"
    /\ execs[e2].pc = "returned" /\ execs[e2].engine = "success"
    /\ Len(execs) = MaxTasks
    /\ Len(session[execs[e2].sid].completedTasks) = 1

----------------------------------------------------------------------------
\* the glob p, from its i-th character on, matches the whole of s from its
\* j-th character on: * stands for any run of characters, ? for exactly one
\* character, every other character for itself
RECURSIVE GlobMatchesFrom(_, _, _, _)
GlobMatchesFrom(p, i, s, j) ==
  IF i > Len(p) THEN j > Len(s)
  ELSE CASE p[i] = "*" ->
              \/ GlobMatchesFrom(p, i + 1, s, j)
              \/ j <= Len(s) /\ GlobMatchesFrom(p, i, s, j + 1)
         [] p[i] = "?" ->
              j <= Len(s) /\ GlobMatchesFrom(p, i + 1, s, j + 1)
         [] OTHER ->
              j <= Len(s) /\ s[j] = p[i] /\ GlobMatchesFrom(p, i + 1, s, j + 1)

WholePathMatches == GlobMatchesFrom(permCall.pattern, 1, permCall.path, 1)

FileRuleApplied == permCall.op = "matchesRule" /\ "path" \in DOMAIN permCall

\* C32: for requests of the path-carrying kinds (Read, Write, Edit,
\* MultiEdit) a rule pattern matches iff the whole file path matches the
\* glob, with * standing for any run of characters, ? for exactly one
\* character and . only for a literal dot; a path that merely contains a
\* fragment matching the pattern does not match.
\* The program does not satisfy this for MultiEdit, which matchesRule sends
\* to the generic matcher.
C32_WholePathGlob ==
  (FileRuleApplied /\ permCall.path /= <<>>)
    => permCall.outcome = Returned(WholePathMatches)

\* what the program does: Read, Write and Edit rules match a non-empty path
\* as a whole against the glob and never match an empty path; a MultiEdit
\* rule is searched for anywhere in the serialised input, its . standing
\* for any character when the pattern has a *
C32_GlobForReadWriteEdit ==
  FileRuleApplied =>
    IF permCall.tool = MultiEdit
    THEN permCall.outcome
           = matchesGenericPattern(permCall.pattern,
                                   JSONstringify([file_path |->
                                                    permCall.path]))
    ELSE permCall.outcome
           = Returned(permCall.path /= <<>> /\ WholePathMatches)

\* a MultiEdit rule matched a path that only contains the pattern
C32_MultiEditFragment ==
  /\ FileRuleApplied
  /\ permCall.tool = MultiEdit
  /\ permCall.pattern = <<".", "e", "n", "v">>
  /\ permCall.path = <<".", "e", "n", "v", ".", "l", "o", "c", "a", "l">>
  /\ permCall.outcome = Returned(TRUE)

\* a Write rule did not match a path that only contains the pattern
C32_WriteWholePath ==
  /\ FileRuleApplied
  /\ permCall.tool = Write
  /\ permCall.pattern = <<".", "e", "n", "v">>
  /\ permCall.path = <<".", "e", "n", "v", ".", "l", "o", "c", "a", "l">>
  /\ permCall.outcome = Returned(FALSE)

----------------------------------------------------------------------------
\* the endSession calls for session sid that returned without an error
CompletedEnds(sid) ==
  { c \in 1..Len(endCalls) :
      endCalls[c].sid = sid /\ endCalls[c].pc = "returned" }

\* the endSession calls for session sid whose report was stored
WrittenEnds(sid) ==
  { c \in 1..Len(endCalls) :
      endCalls[c].sid = sid /\ endCalls[c].pc \in {"written", "returned"} }

\* C33: for each session endSession succeeds at most once and writes at
\* most one report: of two overlapping endSession calls for the same
\* identifier exactly one completes and the other is rejected with
\* session-not-found.
\* The program does not satisfy this: the session leaves the live table
\* only after the report was written, so a second call made meanwhile finds
\* it, writes a second report and completes as well.
C33_EndsAtMostOnce ==
  \A sid \in 1..Len(session) :
    /\ Cardinality(CompletedEnds(sid)) <= 1
    /\ Cardinality(WrittenEnds(sid)) <= 1
    /\ Cardinality(ReportsFor(sid)) <= 1

\* what the program does: a call is rejected with session-not-found exactly
\* when an earlier call for the session has already returned, and every
\* call that proceeds and whose write succeeds stores one report
C33_RejectedOnlyAfterReturn ==
  /\ [][ (teamCall'.op = "endSession" /\ teamCall'.sid \in 1..Len(session))
         => (teamCall'.outcome = "rejected"
               <=> CompletedEnds(teamCall'.sid) /= {}) ]_vars
  /\ [](\A sid \in 1..Len(session) :
          Cardinality(ReportsFor(sid)) = Cardinality(WrittenEnds(sid)))

\* two overlapping endSession calls for one session both completed
C33_BothCompleted ==
  \E sid \in 1..Len(session) :
    /\ Cardinality(CompletedEnds(sid)) = 2
    /\ Cardinality(ReportsFor(sid)) = 2

----------------------------------------------------------------------------
\* the executions the session's currentTasks lists
Listed(sid) ==
  { session[sid].currentTasks[i] : i \in 1..Len(session[sid].currentTasks) }

\* the execution was started by executeParallelTasks
InBatch(e) ==
  \E b \in 1..Len(batches) :
    \E i \in 1..Len(batches[b].execs) : batches[b].execs[i] = e

\* C34: a session's currentTasks holds exactly its pending tasks: a task is
\* in the list from the moment it is accepted, whether through assignTask
\* or executeParallelTasks, until its TaskResult is recorded, and is not in
\* the list afterwards.
\* The program does not satisfy this: only assignTask adds to the list and
\* nothing removes from it.
C34_CurrentTasksArePending ==
  \A e \in 1..Len(execs) :
    e \in Listed(execs[e].sid) <=> execs[e].pc = "running"

\* what the program does: currentTasks lists, in the order of submission
\* and for good, the tasks accepted through assignTask, and no other
C34_CurrentTasksAreAssigned ==
  /\ [](\A sid \in 1..Len(session) :
          /\ \A e \in 1..Len(execs) :
               e \in Listed(sid) <=> (execs[e].sid = sid /\ ~InBatch(e))
          /\ \A i \in 1..Len(session[sid].currentTasks) :
               \A j \in 1..(i - 1) :
                 session[sid].currentTasks[j] < session[sid].currentTasks[i]
          /\ Listed(sid) \subseteq 1..Len(execs))
  /\ [][\A sid \in 1..Len(session) :
          BeginsList(session[sid].currentTasks,
                     session'[sid].currentTasks)]_vars

\* a task whose result was recorded is still in currentTasks
C34_CompletedStillListed ==
  \E e \in 1..Len(execs) :
    /\ execs[e].pc = "returned"
    /\ execs[e].result.status = "completed"
    /\ e \in Listed(execs[e].sid)

\* a task accepted through executeParallelTasks is running and not listed
C34_ParallelNotListed ==
  \E e \in 1..Len(execs) :
    /\ execs[e].pc = "running"
    /\ InBatch(e)
    /\ e \notin Listed(execs[e].sid)

----------------------------------------------------------------------------
\* the sessions the step operates on: the one named in the call it makes,
\* the one whose task it completes or fails, the one whose endSession call
\* it advances
StepSessions ==
  (IF teamCall'.op \in {"assignTask", "executeParallelTasks", "endSession"}
   THEN {teamCall'.sid} ELSE {})
    \cup { execs[e].sid : e \in { x \in 1..Len(execs) : execs'[x] /= execs[x] } }
    \cup { endCalls[c].sid :
             c \in { x \in 1..Len(endCalls) : endCalls'[x] /= endCalls[x] } }

\* the fields of the session the claim names
LedgerOf(s) ==
  <<s.currentTasks, s.completedTasks, s.totalCost, s.totalUsage>>

\* C35: operations on one session never change another: a task assigned,
\* completed or failed in session A, and the ending of session A, leave
\* session B's currentTasks, completedTasks, totalCost and totalUsage
\* unchanged, for every interleaving of tasks running in both sessions.
C35_SessionsAreIsolated ==
  [][\A b \in 1..Len(session) :
       b \notin StepSessions => LedgerOf(session'[b]) = LedgerOf(session[b])
    ]_vars

\* a task completed in one session while a task of the other session was
\* running, after that other session had completed nothing
C35_Witness ==
  \E e1 \in 1..Len(execs), e2 \in 1..Len(execs) :
    /\ execs[e1].sid /= execs[e2].sid
    /\ execs[e1].pc = "returned"
    /\ execs[e1].result.status = "completed"
    /\ execs[e2].pc = "running"
    /\ session[execs[e2].sid].completedTasks = <<>>
    /\ Len(session[execs[e1].sid].completedTasks) = 1

\* one session has ended and the other, still live, has a completed task
C35_WitnessEnded ==
  \E a \in ended, e \in 1..Len(execs) :
    /\ execs[e].sid /= a
    /\ execs[e].sid \in activeSessions
    /\ execs[e].pc = "returned"
    /\ Len(session[execs[e].sid].completedTasks) = 1

----------------------------------------------------------------------------
DangerousApplied ==
  permCall.op = "matchesRule" /\ "core" \in DOMAIN permCall

DangerousMatched == permCall.outcome = Returned(TRUE)

\* the command that is the keyword itself
Keyword == <<"d", "a", "n", "g", "e", "r", "o", "u", "s">>

\* C36: a Bash rule whose pattern is the reserved keyword dangerous matches
\* every command carrying one of the fixed dangerous signatures (recursive
\* deletion from the root, a downloaded script piped into a shell, the
\* fork-bomb shape, a raw block-device write, privilege-escalated deletion)
\* regardless of the surrounding command text, and matches no command
\* without such a signature.
\* The program does not satisfy this: the deletion signature is looked for
\* at the start of the command only, and the command "dangerous" matches
\* the rule as an exact match.
C36_DangerousSignatures ==
  DangerousApplied
    => (DangerousMatched
          <=> permCall.core \in RootDeletions \cup OtherSignatures)

\* what the program does: the rule matches the command "dangerous", a
\* command that begins with a recursive deletion from the root, and a
\* command that carries one of the other signatures anywhere
C36_AsImplemented ==
  DangerousApplied
    => /\ permCall.outcome \in {Returned(TRUE), Returned(FALSE)}
       /\ DangerousMatched
            <=> \/ permCall.command = Keyword
                \/ permCall.core \in RootDeletions /\ permCall.leading = <<>>
                \/ permCall.core \in OtherSignatures

\* a recursive deletion from the root after another command is not matched
C36_DeletionAfterText ==
  /\ DangerousApplied
  /\ permCall.command = <<"c", "d", " ", "/", "t", "m", "p", " ", "&",
      "&", " ", "r", "m", " ", "-", "r", "f", " ", "/">>
  /\ ~DangerousMatched

\* a download piped into a shell is matched inside a longer command
C36_PipeInsideText ==
  /\ DangerousApplied
  /\ permCall.command = <<"e", "c", "h", "o", " ", "x", ";", " ", "c",
      "u", "r", "l", " ", "h", "t", "t", "p", ":", "/", "/", "x", " ",
          "|", " ", "s", "h", " ", "#", " ", "d", "o", "n", "e">>
  /\ DangerousMatched

----------------------------------------------------------------------------
ProcessCalled == ctCall.op = "processMessage"

\* the message of the last call was recorded before: the ledger the call
\* found holds an entry with its id or, when it carries no id, an entry
\* without id and with the same usage
RecordedBefore ==
  \E i \in 1..Len(ctCall.before) :
    /\ ctCall.before[i].messageId = MessageId(ctCall.message)
    /\ \/ "id" \in DOMAIN ctCall.message
       \/ ctCall.before[i].usage = ctCall.message.usage

\* the ledger the call found holds an entry under the message's id, the
\* missing id counted as one
IdSeenBefore == MessageId(ctCall.message) \in LedgerIds(ctCall.before)

\* the last call stored an entry for its message and returned it
StoredAndReturned ==
  /\ ctCall.returned = "stepUsage"
  /\ ctCall.stepUsage = StepUsageOf(ctCall.message)
  /\ stepUsages = Append(ctCall.before, ctCall.stepUsage)

\* the last call returned null and changed nothing
ReturnedNull ==
  /\ ctCall.returned = "null"
  /\ stepUsages = ctCall.before

\* the ledger holds exactly one entry per recorded message id
OneEntryPerId ==
  /\ LedgerIds(stepUsages) = processedMessageIds
  /\ \A i, j \in 1..Len(stepUsages) :
        stepUsages[i].messageId = stepUsages[j].messageId => i = j

\* C37: processMessage stores a ledger entry and returns it iff the message
\* is of type 'assistant', carries usage, and is a message not recorded
\* before; in every other case it returns null and changes nothing, so that
\* in every reachable state, also after reset, the ledger holds exactly one
\* entry per recorded message id and two distinct messages are never
\* collapsed into one.
\* The program does not satisfy this: a message without an id is recorded
\* under the id undefined, and every later message without an id is taken
\* for it and dropped.
C37_StoredIffNew ==
  /\ OneEntryPerId
  /\ ProcessCalled
       => IF ~NotBillable(ctCall.message) /\ ~RecordedBefore
          THEN StoredAndReturned
          ELSE ReturnedNull

\* what the program does: it stores and returns an entry iff the message is
\* of type 'assistant', carries usage, and no entry is recorded under its
\* id, a missing id being an id like any other
C37_StoredIffNewId ==
  /\ OneEntryPerId
  /\ ProcessCalled
       => IF ~NotBillable(ctCall.message) /\ ~IdSeenBefore
          THEN StoredAndReturned
          ELSE ReturnedNull

\* a billable message without an id was dropped because another message
\* without an id, with another usage, had been recorded
C37_Collapsed ==
  /\ ProcessCalled
  /\ ~NotBillable(ctCall.message)
  /\ "id" \notin DOMAIN ctCall.message
  /\ ctCall.returned = "null"
  /\ \E i \in 1..Len(stepUsages) :
       /\ stepUsages[i].messageId = <<>>
       /\ stepUsages[i].usage /= ctCall.message.usage

----------------------------------------------------------------------------
\* the endSession calls for session sid whose report could not be written
FailedEnds(sid) ==
  { c \in 1..Len(endCalls) :
      endCalls[c].sid = sid /\ endCalls[c].pc = "failed" }

\* the step is the failure of the report write of the call c
WriteFailsIn(c) ==
  /\ c \in 1..Len(endCalls)
  /\ endCalls[c].pc = "writing"
  /\ endCalls'[c].pc = "failed"

\* C38: if writing the session report fails, endSession rejects with that
\* error and the session stays in the live table with its state unchanged,
\* so it can still be queried and ended again later.
C38_FailedWriteKeepsSession ==
  /\ [][\A c \in 1..MaxOverlappingEnds :
          WriteFailsIn(c)
            => /\ teamCall'.op = "endSessionRejects"
               /\ teamCall'.call = c
               /\ teamCall'.error \in WriteErrors
               /\ UNCHANGED <<activeSessions, session, reports, ended>>]_vars
  /\ [](\A sid \in 1..Len(session) :
          (FailedEnds(sid) /= {} /\ CompletedEnds(sid) = {})
            => /\ sid \in activeSessions
               /\ sid \notin ended
               /\ getSessionStatus(sid) = session[sid])

\* the report write of an endSession call failed, the session was ended
\* again by a later call, and that call completed
C38_Witness ==
  \E c1 \in 1..Len(endCalls), c2 \in 1..Len(endCalls) :
    /\ c1 < c2
    /\ endCalls[c1].sid = endCalls[c2].sid
    /\ endCalls[c1].pc = "failed"
    /\ endCalls[c2].pc = "returned"
    /\ endCalls[c2].sid \in ended

\* the report write failed and the session is live with a completed task
C38_WitnessStillLive ==
  \E sid \in activeSessions :
    /\ FailedEnds(sid) /= {}
    /\ Len(session[sid].completedTasks) = 1
    /\ teamCall.op = "endSessionRejects"

----------------------------------------------------------------------------
\* the entries of the stored list, an absent file holding none
StoredSessions ==
  IF sessionsFile.exists THEN sessionsFile.sessions ELSE <<>>

\* the stored list holds the entry e
Stored(e) == \E i \in 1..Len(StoredSessions) : StoredSessions[i] = e

\* the entry the call saves, as the file holds it
EntrySavedBy(c) == StringifySessions(<<metadataCalls[c].metadata>>)[1]

\* the save of call c has returned
Saved(c) == c \in 1..Len(metadataCalls) /\ metadataCalls[c].pc = "returned"

\* no other call saves the session of call c
OnlySaverOfItsSession(c) ==
  \A d \in 1..Len(metadataCalls) :
    d /= c => metadataCalls[d].metadata.id /= metadataCalls[c].metadata.id

AtMostOneEntryPerId ==
  \A i, j \in 1..Len(StoredSessions) :
    StoredSessions[i].id = StoredSessions[j].id => i = j

\* C39: persisted session metadata is never lost to concurrent writers:
\* when saveSessionMetadata (called directly or through resumeSession or
\* completeSession) runs concurrently for two different session ids, the
\* stored list afterwards contains both sessions with the values last
\* saved for each, and it always holds at most one entry per session id.
\* The program does not satisfy this: each call writes back the list it
\* read with its own entry replaced, so the call that writes last erases
\* what a call that wrote in between had saved.
C39_NoLostUpdate ==
  /\ AtMostOneEntryPerId
  /\ \A c \in 1..Len(metadataCalls) :
       (Saved(c) /\ OnlySaverOfItsSession(c)) => Stored(EntrySavedBy(c))

\* what the program does: the stored list holds at most one entry per
\* session id, and a write replaces the file by the list the writing call
\* had read, with that call's entry in it
C39_LastWriterWins ==
  /\ []AtMostOneEntryPerId
  /\ [][sessionsFile' /= sessionsFile
          => \E c \in 1..Len(metadataCalls) :
               /\ metadataCalls[c].pc = "writing"
               /\ Saved(c)'
               /\ sessionsFile'.exists
               /\ sessionsFile'.sessions = metadataCalls[c].content
               /\ Stored(EntrySavedBy(c))']_vars

\* two saves for different sessions have both returned and the stored list
\* lacks the session one of them saved
C39_LostUpdate ==
  \E c \in 1..Len(metadataCalls), d \in 1..Len(metadataCalls) :
    /\ Saved(c) /\ Saved(d)
    /\ metadataCalls[c].metadata.id /= metadataCalls[d].metadata.id
    /\ \A i \in 1..Len(StoredSessions) :
         StoredSessions[i].id /= metadataCalls[c].metadata.id

\* a session completed through completeSession was lost to a concurrent
\* direct save of another session
C39_LostCompletion ==
  \E c \in 1..Len(metadataCalls), d \in 1..Len(metadataCalls) :
    /\ Saved(c) /\ Saved(d)
    /\ metadataCalls[c].op = "completeSession"
    /\ metadataCalls[d].op = "saveSessionMetadata"
    /\ metadataCalls[c].metadata.id /= metadataCalls[d].metadata.id
    /\ ~Stored(EntrySavedBy(c))


====
